---- MODULE Spec2Model ----
(***************************************************************************)
(* Doc2LaTeX: the hybrid document-intelligence pipeline.                   *)
(*                                                                         *)
(* A text is a sequence of characters, a character a one-character string. *)
(* A character outside ASCII is written as its code point name ("U+0915"). *)
(* Regular expressions of the source are modelled by their leftmost,       *)
(* greedy, backtracking match, and re.sub by a left-to-right scan over     *)
(* non-overlapping matches.                                                *)
(***************************************************************************)
EXTENDS Integers, Sequences, FiniteSets, TLC

VARIABLES
    op,                 \* pure-function harness: the function applied ("none" before)
    arg,                \* pure-function harness: its input
    res,                \* pure-function harness: its result
    entry,              \* the entry point serving the request: "cli", "web_ai", "web"
    pc,                 \* the stage the request has reached
    request,            \* the command line arguments / form fields and the API key
    document_text,      \* the text read_input_file extracted
    doc_analysis,       \* the local analysis: the DocumentAnalysis
    code_converted,     \* the rule engine's output
    enhanced_content,   \* the content handed to the renderer
    doc_metadata,       \* the local metadata: the metadata dictionary
    suggestions,        \* the list suggest_improvements returned
    latex_document,     \* the rendered document
    files,              \* the files written to the output directory
    calls,              \* the calls made to the external service, with their answers
    outcome,            \* what the entry point reported to its caller
    cwd,                \* the working directory of the process (os.getcwd())
    pdfs,               \* the directories that hold a main.pdf
    builds,             \* the calls of build_pdf_document: position, locals, result
    convert             \* convert.py --build: position, locals, what ran and was printed

harness_vars == <<op, arg, res>>
pipeline_vars ==
    <<entry, pc, request, document_text, doc_analysis, code_converted, enhanced_content,
      doc_metadata, suggestions, latex_document, files, calls, outcome>>
build_vars == <<cwd, pdfs, builds>>
vars == <<harness_vars, pipeline_vars, build_vars, convert>>

\* a local that is not assigned yet
Unset == <<>>

\* no request is being served
Idle ==
    /\ entry = "none"
    /\ pc = "idle"
    /\ request = Unset
    /\ document_text = Unset
    /\ doc_analysis = Unset
    /\ code_converted = Unset
    /\ enhanced_content = Unset
    /\ doc_metadata = Unset
    /\ suggestions = Unset
    /\ latex_document = Unset
    /\ files = {}
    /\ calls = <<>>
    /\ outcome = Unset

\* a path is the sequence of its names; the server is started in the
\* application directory
AppDir == <<"app">>

\* no document is being compiled
NoBuild == cwd = AppDir /\ pdfs = {} /\ builds = <<>>

\* convert.py has not been started
NoConvert == convert = Unset

\* a function taken on its own: its input is drawn at the start, one step
\* applies it
HarnessInit(inputs) == op = "none" /\ arg \in inputs /\ res = <<>> /\ Idle /\ NoBuild /\ NoConvert

Apply(name, result) ==
    /\ op = "none"
    /\ op' = name
    /\ res' = result
    /\ UNCHANGED <<arg, pipeline_vars, build_vars, convert>>

---------------------------------------------------------------------------
(* Characters                                                              *)

UpperCase == {"A", "B", "C", "D", "E", "F", "G", "H", "I", "J", "K", "L", "M", "N", "O", "P", "Q", "R", "S", "T", "U", "V", "W", "X", "Y", "Z"}
LowerCase == {"a", "b", "c", "d", "e", "f", "g", "h", "i", "j", "k", "l", "m", "n", "o", "p", "q", "r", "s", "t", "u", "v", "w", "x", "y", "z"}
Letter == UpperCase \cup LowerCase
DigitSeq == <<"0", "1", "2", "3", "4", "5", "6", "7", "8", "9">>
AlphabetUpper ==
    <<"A", "B", "C", "D", "E", "F", "G", "H", "I", "J", "K", "L", "M", "N", "O", "P", "Q", "R", "S", "T", "U", "V", "W", "X", "Y", "Z">>
AlphabetLower ==
    <<"a", "b", "c", "d", "e", "f", "g", "h", "i", "j", "k", "l", "m", "n", "o", "p", "q", "r", "s", "t", "u", "v", "w", "x", "y", "z">>

\* str.lower()
LowerOf(c) ==
    IF c \in UpperCase THEN AlphabetLower[CHOOSE k \in 1..26 : AlphabetUpper[k] = c] ELSE c
Lower(text) == [i \in 1..Len(text) |-> LowerOf(text[i])]

\* pattern in text
Contains(text, pattern) ==
    \E i \in 1..(Len(text) - Len(pattern) + 1) :
        SubSeq(text, i, i + Len(pattern) - 1) = pattern
Digit == {"0", "1", "2", "3", "4", "5", "6", "7", "8", "9"}
\* \s of Python's re on str, within the characters used here
WhiteSpace == {" ", "\t", "\n", "\r"}
NonAscii == {"U+0915"}

Min(S) == CHOOSE i \in S : \A j \in S : i <= j
Max(S) == CHOOSE i \in S : \A j \in S : i >= j

\* text[from..] (the empty text when from is past the end)
Tail_(text, from) == SubSeq(text, from, Len(text))

---------------------------------------------------------------------------
(* template_engine.py: escaping                                            *)

\* str.replace(ch, escaped) for a one-character ch: every occurrence, left
\* to right, the replacement text itself is not rescanned
RECURSIVE ReplaceFrom(_, _, _, _)
ReplaceFrom(text, pos, ch, escaped) ==
    LET hits == {i \in pos..Len(text) : text[i] = ch}
    IN  IF hits = {} THEN Tail_(text, pos)
        ELSE LET i == Min(hits)
             IN  SubSeq(text, pos, i - 1) \o escaped \o ReplaceFrom(text, i + 1, ch, escaped)

Replace(text, ch, escaped) == ReplaceFrom(text, 1, ch, escaped)

\* for char, escaped in table.items(): text = text.replace(char, escaped)
\* (a dict iterates in insertion order)
RECURSIVE ReplaceAll(_, _, _)
ReplaceAll(text, table, k) ==
    IF k > Len(table) THEN text
    ELSE ReplaceAll(Replace(text, table[k][1], table[k][2]), table, k + 1)

latex_special_chars ==
    << <<"#", <<"\\", "#">> >>,
       <<"$", <<"\\", "$">> >>,
       <<"%", <<"\\", "%">> >>,
       <<"&", <<"\\", "&">> >>,
       <<"_", <<"\\", "_">> >>,
       <<"{", <<"\\", "{">> >>,
       <<"}", <<"\\", "}">> >>,
       <<"^",
          <<"\\", "t", "e", "x", "t", "a", "s", "c", "i", "i", "c", "i", "r", "c", "u", "m",
            "{", "}">> >>,
       <<"~",
          <<"\\", "t", "e", "x", "t", "a", "s", "c", "i", "i", "t", "i", "l", "d", "e", "{", "}">> >>,
       <<"\\",
          <<"\\", "t", "e", "x", "t", "b", "a", "c", "k", "s", "l", "a", "s", "h", "{", "}">> >> >>

\* text.encode('ascii', 'ignore').decode('ascii')
IsAscii(c) == c \notin NonAscii
DropNonAscii(text) == SelectSeq(text, IsAscii)

escape_latex(text) == DropNonAscii(ReplaceAll(text, latex_special_chars, 1))

selective_chars ==
    << <<"&", <<"\\", "&">> >>,
       <<"#", <<"\\", "#">> >>,
       <<"$", <<"\\", "$">> >>,
       <<"%", <<"\\", "%">> >>,
       <<"_", <<"\\", "_">> >>,
       <<"^",
          <<"\\", "t", "e", "x", "t", "a", "s", "c", "i", "i", "c", "i", "r", "c", "u", "m",
            "{", "}">> >>,
       <<"~",
          <<"\\", "t", "e", "x", "t", "a", "s", "c", "i", "i", "t", "i", "l", "d", "e", "{", "}">> >> >>

\* re.search(r'\\[a-zA-Z]+\{', content): the end of the match that starts at
\* i (0: none). [a-zA-Z]+ is greedy and a brace is no letter, so the only
\* candidate is the whole run of letters.
LetterRunEnd(text, i) ==
    LET stops == {j \in i..Len(text) : text[j] \notin Letter}
    IN  IF stops = {} THEN Len(text) ELSE Min(stops) - 1

CommandMatchEnd(text, i) ==
    IF text[i] # "\\" THEN 0
    ELSE LET e == LetterRunEnd(text, i + 1)
         IN  IF e >= i + 1 /\ e + 1 <= Len(text) /\ text[e + 1] = "{" THEN e + 1 ELSE 0

\* a detector that takes a backslash and a letter for a command, with or
\* without an opening brace
has_latex_commands_no_brace(content) ==
    \E i \in 1..(Len(content) - 1) : content[i] = "\\" /\ content[i + 1] \in Letter

has_latex_commands(content) ==
    \E i \in 1..Len(content) : CommandMatchEnd(content, i) > 0

\* the maximal run of \s characters starting at i ends at WhiteRunEnd
\* (i - 1: there is none)
WhiteRunEnd(text, i) ==
    LET stops == {j \in i..Len(text) : text[j] \notin WhiteSpace}
    IN  IF stops = {} THEN Len(text) ELSE Min(stops) - 1

\* re.sub(r'\n\s*\n', r'\n\n', content): a match starts at a newline and,
\* \s* being greedy, ends at the last newline of the white run that follows
ParBreakMatchEnd(text, i) ==
    IF text[i] # "\n" THEN 0
    ELSE LET e == WhiteRunEnd(text, i + 1)
             nl == {j \in (i + 1)..e : text[j] = "\n"}
         IN  IF nl = {} THEN 0 ELSE Max(nl)

RECURSIVE NormalizeParBreaksFrom(_, _)
NormalizeParBreaksFrom(text, pos) ==
    LET starts == {i \in pos..Len(text) : ParBreakMatchEnd(text, i) > 0}
    IN  IF starts = {} THEN Tail_(text, pos)
        ELSE LET i == Min(starts)
             IN  SubSeq(text, pos, i - 1) \o <<"\n", "\n">>
                    \o NormalizeParBreaksFrom(text, ParBreakMatchEnd(text, i) + 1)

\* re.sub(r'^\s+', '', content, flags=re.MULTILINE): ^ holds at the start and
\* after every newline of the subject
IsLineStart(text, i) == i = 1 \/ text[i - 1] = "\n"

LeadingWhiteMatchEnd(text, i) ==
    IF IsLineStart(text, i) /\ text[i] \in WhiteSpace THEN WhiteRunEnd(text, i) ELSE 0

RECURSIVE StripLeadingWhiteFrom(_, _)
StripLeadingWhiteFrom(text, pos) ==
    LET starts == {i \in pos..Len(text) : LeadingWhiteMatchEnd(text, i) > 0}
    IN  IF starts = {} THEN Tail_(text, pos)
        ELSE LET i == Min(starts)
             IN  SubSeq(text, pos, i - 1)
                    \o StripLeadingWhiteFrom(text, LeadingWhiteMatchEnd(text, i) + 1)

NormalizeFormatting(content) ==
    StripLeadingWhiteFrom(NormalizeParBreaksFrom(content, 1), 1)

clean_content_for_latex(content) ==
    IF has_latex_commands(content)
    THEN NormalizeFormatting(ReplaceAll(content, selective_chars, 1))
    ELSE NormalizeFormatting(escape_latex(content))

---------------------------------------------------------------------------
(* Python values that reach the pipeline from the service's JSON: a string *)
(* (a text), null, a number (in hundredths; nan apart), a list, a mapping. *)

VStr(s) == [t |-> "str", s |-> s, n |-> 0, items |-> <<>>, d |-> <<>>]
VNull == [t |-> "null", s |-> <<>>, n |-> 0, items |-> <<>>, d |-> <<>>]
VNum(n) == [t |-> "num", s |-> <<>>, n |-> n, items |-> <<>>, d |-> <<>>]
VNaN == [t |-> "nan", s |-> <<>>, n |-> 0, items |-> <<>>, d |-> <<>>]
VList(items) == [t |-> "list", s |-> <<>>, n |-> 0, items |-> items, d |-> <<>>]
VDict(d) == [t |-> "dict", s |-> <<>>, n |-> 0, items |-> <<>>, d |-> d]

EmptyDict == [k \in {} |-> VNull]

S_Document ==
    <<"D", "o", "c", "u", "m", "e", "n", "t">>
S_Unknown ==
    <<"U", "n", "k", "n", "o", "w", "n">>
S_UnknownDepartment ==
    <<"U", "n", "k", "n", "o", "w", "n", " ", "D", "e", "p", "a", "r", "t", "m", "e", "n", "t">>
S_Public ==
    <<"P", "u", "b", "l", "i", "c">>
S_AnalysisFailed ==
    <<"D", "o", "c", "u", "m", "e", "n", "t", " ", "a", "n", "a", "l", "y", "s", "i", "s", " ",
      "f", "a", "i", "l", "e", "d">>
S_indian_government ==
    <<"i", "n", "d", "i", "a", "n", "_", "g", "o", "v", "e", "r", "n", "m", "e", "n", "t">>
S_academic_formal ==
    <<"a", "c", "a", "d", "e", "m", "i", "c", "_", "f", "o", "r", "m", "a", "l">>
S_legal_standard ==
    <<"l", "e", "g", "a", "l", "_", "s", "t", "a", "n", "d", "a", "r", "d">>
S_corporate_report ==
    <<"c", "o", "r", "p", "o", "r", "a", "t", "e", "_", "r", "e", "p", "o", "r", "t">>
S_basic ==
    <<"b", "a", "s", "i", "c">>
S_None ==
    <<"N", "o", "n", "e">>
S_nan ==
    <<"n", "a", "n">>

---------------------------------------------------------------------------
(* ai_processor.py: DocumentType, DocumentAnalysis, analyze_document       *)

DocumentTypeValue ==
    [OFFICE_MEMORANDUM |->
    <<"o", "f", "f", "i", "c", "e", "_", "m", "e", "m", "o", "r", "a", "n", "d", "u", "m">>,
     CIRCULAR |->
    <<"c", "i", "r", "c", "u", "l", "a", "r">>,
     NOTIFICATION |->
    <<"n", "o", "t", "i", "f", "i", "c", "a", "t", "i", "o", "n">>,
     RESEARCH_PAPER |->
    <<"r", "e", "s", "e", "a", "r", "c", "h", "_", "p", "a", "p", "e", "r">>,
     REPORT |->
    <<"r", "e", "p", "o", "r", "t">>,
     LETTER |->
    <<"l", "e", "t", "t", "e", "r">>,
     POLICY_DOCUMENT |->
    <<"p", "o", "l", "i", "c", "y", "_", "d", "o", "c", "u", "m", "e", "n", "t">>,
     TENDER_DOCUMENT |->
    <<"t", "e", "n", "d", "e", "r", "_", "d", "o", "c", "u", "m", "e", "n", "t">>,
     ACADEMIC_PAPER |->
    <<"a", "c", "a", "d", "e", "m", "i", "c", "_", "p", "a", "p", "e", "r">>,
     LEGAL_DOCUMENT |->
    <<"l", "e", "g", "a", "l", "_", "d", "o", "c", "u", "m", "e", "n", "t">>,
     FINANCIAL_REPORT |->
    <<"f", "i", "n", "a", "n", "c", "i", "a", "l", "_", "r", "e", "p", "o", "r", "t">>,
     UNKNOWN |->
    <<"u", "n", "k", "n", "o", "w", "n">>]

DocumentType == DOMAIN DocumentTypeValue

\* DocumentType(value): the member with that value; a value of no member
\* (a string outside the enumeration, or no string) raises ValueError
IsDocumentTypeValue(v) ==
    v.t = "str" /\ \E m \in DocumentType : DocumentTypeValue[m] = v.s

DocumentTypeOf(v) == CHOOSE m \in DocumentType : DocumentTypeValue[m] = v.s

DocumentAnalysis(document_type, title, author, department, classification, summary, key_sections, formatting_requirements, suggested_template, confidence_score) ==
    [document_type |-> document_type,
     title |-> title,
     author |-> author,
     department |-> department,
     classification |-> classification,
     summary |-> summary,
     key_sections |-> key_sections,
     formatting_requirements |-> formatting_requirements,
     suggested_template |-> suggested_template,
     confidence_score |-> confidence_score]

\* the except branch of analyze_document
DefaultAnalysis ==
    DocumentAnalysis("UNKNOWN", VStr(S_Document), VStr(S_Unknown),
                     VStr(S_UnknownDepartment), VStr(S_Public), VStr(S_AnalysisFailed),
                     VList(<<>>), VDict(EmptyDict), VStr(S_indian_government), VNum(0))

\* The service's answer to one call: the call raised (ok = FALSE), or it
\* returned a text. A classification answer is a sequence of tokens: prose
\* without braces ("text"), a brace ("{", "}"), or the well-formed members
\* of one JSON object ("members", with the mapping d they denote).
Tok(k) == [k |-> k, d |-> EmptyDict]
Members(d) == [k |-> "members", d |-> d]
CallFailed == [ok |-> FALSE, content |-> <<>>]
CallReturned(content) == [ok |-> TRUE, content |-> content]

\* re.search(r'\{.*\}', analysis_text, re.DOTALL): from the first opening
\* brace to the last closing brace after it (.* is greedy)
JsonMatches(content) ==
    \E i \in 1..Len(content), j \in 1..Len(content) :
        i < j /\ content[i].k = "{" /\ content[j].k = "}"

JsonMatchGroup(content) ==
    LET i == Min({p \in 1..Len(content) : content[p].k = "{"})
        j == Max({p \in 1..Len(content) : content[p].k = "}"})
    IN  SubSeq(content, i, j)

\* json.loads(group): the group is one object, or it raises
JsonLoadsOk(group) ==
    \/ Len(group) = 2
    \/ Len(group) = 3 /\ group[2].k = "members"

JsonLoads(group) == IF Len(group) = 3 THEN group[2].d ELSE EmptyDict

\* dict.get(key, default)
Get(d, key, default) == IF key \in DOMAIN d THEN d[key] ELSE default

\* float(x): a number is itself; a string is parsed when it is a decimal
\* numeral (digits, and at most two after a point: the model counts in
\* hundredths); null, a list, a mapping or any other string raises
DigitValue(c) == CHOOSE v \in 0..9 : DigitSeq[v + 1] = c

RECURSIVE NumeralValue(_)
NumeralValue(digits) ==
    IF digits = <<>> THEN 0
    ELSE 10 * NumeralValue(SubSeq(digits, 1, Len(digits) - 1)) + DigitValue(digits[Len(digits)])

AllDigits(s) == s # <<>> /\ \A i \in 1..Len(s) : s[i] \in Digit

IsNumeral(s) ==
    \/ AllDigits(s)
    \/ \E p \in 2..(Len(s) - 1) :
          /\ s[p] = "."
          /\ AllDigits(SubSeq(s, 1, p - 1))
          /\ AllDigits(SubSeq(s, p + 1, Len(s)))
          /\ Len(s) - p <= 2

Hundredths(s) ==
    IF AllDigits(s) THEN 100 * NumeralValue(s)
    ELSE LET p == CHOOSE q \in 1..Len(s) : s[q] = "."
             frac == SubSeq(s, p + 1, Len(s))
         IN  100 * NumeralValue(SubSeq(s, 1, p - 1))
                + (IF Len(frac) = 1 THEN 10 * NumeralValue(frac) ELSE NumeralValue(frac))

FloatOk(v) == v.t \in {"num", "nan"} \/ (v.t = "str" /\ IsNumeral(v.s))

Float(v) == IF v.t = "str" THEN VNum(Hundredths(v.s)) ELSE v

\* the try block of analyze_document raises
AnalysisRaises(response) ==
    \/ ~response.ok
    \/ ~JsonMatches(response.content)
    \/ ~JsonLoadsOk(JsonMatchGroup(response.content))
    \/ LET analysis_data == JsonLoads(JsonMatchGroup(response.content))
       IN  \/ ~IsDocumentTypeValue(Get(analysis_data, "document_type", VStr(DocumentTypeValue.UNKNOWN)))
           \/ ~FloatOk(Get(analysis_data, "confidence_score", VNum(0)))

\* a classifier that repairs what it cannot read instead of discarding the
\* answer: an unrecognised type becomes unknown, an unreadable confidence 0.0
analyze_document_repairing(response) ==
    IF ~response.ok \/ ~JsonMatches(response.content)
         \/ ~JsonLoadsOk(JsonMatchGroup(response.content))
    THEN DefaultAnalysis
    ELSE LET analysis_data == JsonLoads(JsonMatchGroup(response.content))
             type == Get(analysis_data, "document_type", VStr(DocumentTypeValue.UNKNOWN))
             score == Get(analysis_data, "confidence_score", VNum(0))
         IN  DocumentAnalysis(
                IF IsDocumentTypeValue(type) THEN DocumentTypeOf(type) ELSE "UNKNOWN",
                Get(analysis_data, "title", VStr(S_Document)),
                Get(analysis_data, "author", VStr(S_Unknown)),
                Get(analysis_data, "department", VStr(S_UnknownDepartment)),
                Get(analysis_data, "classification", VStr(S_Public)),
                Get(analysis_data, "summary", VStr(<<>>)),
                Get(analysis_data, "key_sections", VList(<<>>)),
                Get(analysis_data, "formatting_requirements", VDict(EmptyDict)),
                Get(analysis_data, "suggested_template", VStr(S_indian_government)),
                IF FloatOk(score) THEN Float(score) ELSE VNum(0))

analyze_document(response) ==
    IF AnalysisRaises(response) THEN DefaultAnalysis
    ELSE LET analysis_data == JsonLoads(JsonMatchGroup(response.content))
         IN  DocumentAnalysis(
                DocumentTypeOf(Get(analysis_data, "document_type", VStr(DocumentTypeValue.UNKNOWN))),
                Get(analysis_data, "title", VStr(S_Document)),
                Get(analysis_data, "author", VStr(S_Unknown)),
                Get(analysis_data, "department", VStr(S_UnknownDepartment)),
                Get(analysis_data, "classification", VStr(S_Public)),
                Get(analysis_data, "summary", VStr(<<>>)),
                Get(analysis_data, "key_sections", VList(<<>>)),
                Get(analysis_data, "formatting_requirements", VDict(EmptyDict)),
                Get(analysis_data, "suggested_template", VStr(S_indian_government)),
                Float(Get(analysis_data, "confidence_score", VNum(0))))

---------------------------------------------------------------------------
(* Results of operations that may raise                                    *)

Ok(v) == [exc |-> "none", value |-> v]
Raised(e) == [exc |-> e, value |-> <<>>]

\* the digits of a natural number
RECURSIVE Numeral(_)
Numeral(n) == IF n < 10 THEN <<DigitSeq[n + 1]>> ELSE Numeral(n \div 10) \o <<DigitSeq[(n % 10) + 1]>>

\* str(x) of a float given in hundredths: the shortest repr, at least one
\* digit after the point
FloatStr(n) ==
    LET a == IF n < 0 THEN -n ELSE n
        frac == a % 100
    IN  (IF n < 0 THEN <<"-">> ELSE <<>>) \o Numeral(a \div 100) \o <<".">>
            \o (IF frac % 10 = 0 THEN Numeral(frac \div 10)
                ELSE <<DigitSeq[(frac \div 10) + 1], DigitSeq[(frac % 10) + 1]>>)

\* str(x), as an f-string formats a value: the strings, null and the floats
\* that the fields formatted here hold
PyStr(v) ==
    CASE v.t = "str" -> v.s
      [] v.t = "null" -> S_None
      [] v.t = "nan" -> S_nan
      [] v.t = "num" -> FloatStr(v.n)

---------------------------------------------------------------------------
(* ai_processor.py: the rule engine                                        *)

S_DefaultFileNo ==
    <<"N", "o", ".", " ", "1", "/", "1", "/", "2", "0", "2", "5", "-", "D", "e", "s", "k">>
S_DefaultDate ==
    <<"D", "a", "t", "e", ":", " ", "_", "_", "_", "_", "_", "_", "_", "_", "_", "_">>
S_FileNoLine ==
    <<"\n", "F", "i", "l", "e", " ", "N", "o", ".", ":", " ">>
S_DateLine ==
    <<"\n", "D", "a", "t", "e", ":", " ">>
S_MemoBanner ==
    <<"\n", "\n", "O", "F", "F", "I", "C", "E", " ", "M", "E", "M", "O", "R", "A", "N", "D",
      "U", "M", "\n", "\n", "S", "u", "b", "j", "e", "c", "t", ":", " ">>
S_CircularBanner ==
    <<"\n", "\n", "C", "I", "R", "C", "U", "L", "A", "R", "\n", "\n", "S", "u", "b", "j", "e",
      "c", "t", ":", " ">>
S_NotificationBanner ==
    <<"\n", "N", "O", "T", "I", "F", "I", "C", "A", "T", "I", "O", "N", "\n">>
S_SubjectLine ==
    <<"\n", "\n", "S", "u", "b", "j", "e", "c", "t", ":", " ">>
S_HeaderEnd ==
    <<"\n", "\n", " ", " ", " ", " ", " ", " ", " ", " ">>
S_FooterOpen ==
    <<"\n", "\n", "\n", "(">>
S_FooterMid ==
    <<")", "\n">>
S_FooterEnd ==
    <<"\n", " ", " ", " ", " ", " ", " ", " ", " ">>
S_ReportBanner ==
    <<"\n", "R", "E", "P", "O", "R", "T", "\n", "\n", "T", "i", "t", "l", "e", ":", " ">>
S_PreparedBy ==
    <<"\n", "P", "r", "e", "p", "a", "r", "e", "d", " ", "b", "y", ":", " ">>
S_DepartmentLine ==
    <<"\n", "D", "e", "p", "a", "r", "t", "m", "e", "n", "t", ":", " ">>
S_ClassificationLine ==
    <<"\n", "C", "l", "a", "s", "s", "i", "f", "i", "c", "a", "t", "i", "o", "n", ":", " ">>
S_ExecutiveSummary ==
    <<"\n", "\n", "E", "X", "E", "C", "U", "T", "I", "V", "E", " ", "S", "U", "M", "M", "A",
      "R", "Y", "\n", "\n", " ", " ", " ", " ", " ", " ", " ", " ">>

\* analysis.formatting_requirements.get(key, default): only a mapping has get
HasGet(v) == v.t = "dict"

FileNoAndDate(analysis) ==
    S_FileNoLine
        \o PyStr(Get(analysis.formatting_requirements.d, "file_number", VStr(S_DefaultFileNo)))
        \o S_DateLine
        \o PyStr(Get(analysis.formatting_requirements.d, "date", VStr(S_DefaultDate)))

_add_memo_structure(text, analysis) ==
    IF ~HasGet(analysis.formatting_requirements) THEN Raised("AttributeError")
    ELSE Ok(FileNoAndDate(analysis) \o S_MemoBanner \o PyStr(analysis.title) \o S_HeaderEnd
            \o text
            \o S_FooterOpen \o PyStr(analysis.author) \o S_FooterMid
            \o PyStr(analysis.department) \o S_FooterEnd)

_add_circular_structure(text, analysis) ==
    IF ~HasGet(analysis.formatting_requirements) THEN Raised("AttributeError")
    ELSE Ok(FileNoAndDate(analysis) \o S_CircularBanner \o PyStr(analysis.title)
            \o S_HeaderEnd \o text)

_add_notification_structure(text, analysis) ==
    IF ~HasGet(analysis.formatting_requirements) THEN Raised("AttributeError")
    ELSE Ok(S_NotificationBanner \o FileNoAndDate(analysis) \o S_SubjectLine
            \o PyStr(analysis.title) \o S_HeaderEnd \o text)

_add_report_structure(text, analysis) ==
    Ok(S_ReportBanner \o PyStr(analysis.title)
        \o S_PreparedBy \o PyStr(analysis.author)
        \o S_DepartmentLine \o PyStr(analysis.department)
        \o S_ClassificationLine \o PyStr(analysis.classification)
        \o S_ExecutiveSummary \o text)

\* $ under re.MULTILINE: at the end of the subject and before every newline
AtLineEnd(text, p) == p = Len(text) + 1 \/ (p <= Len(text) /\ text[p] = "\n")

\* the maximal run of characters of class starting at i ends at RunEnd
\* (i - 1: the run is empty)
RunEnd(text, i, class) ==
    LET stops == {j \in i..Len(text) : text[j] \notin class}
    IN  IF stops = {} THEN Len(text) ELSE Min(stops) - 1

NonDotRunEnd(text, i) ==
    LET stops == {j \in i..Len(text) : text[j] = "."}
    IN  IF stops = {} THEN Len(text) ELSE Min(stops) - 1

\* \s*$ from position from: \s* is greedy and gives back until $ holds. The
\* last character consumed, or -1 when $ holds nowhere.
WhiteThenLineEnd(text, from) ==
    LET w == RunEnd(text, from, WhiteSpace)
        ends == {p \in from..(w + 1) : AtLineEnd(text, p)}
    IN  IF ends = {} THEN -1 ELSE Max(ends) - 1

\* :?\s*$ after a group that ends at e: the colon is taken first when there
\* is one, and given back when the rest fails with it
HeadingTailEnd(text, e) ==
    IF e + 1 <= Len(text) /\ text[e + 1] = ":" /\ WhiteThenLineEnd(text, e + 2) >= 0
    THEN WhiteThenLineEnd(text, e + 2)
    ELSE WhiteThenLineEnd(text, e + 1)

\* \s*[A-Z][^.]* from position from: the positions at which the group may end
UpperThenNonDots(text, from) ==
    LET u == RunEnd(text, from, WhiteSpace) + 1
    IN  IF u <= Len(text) /\ text[u] \in UpperCase
        THEN u..NonDotRunEnd(text, u + 1)
        ELSE {}

\* the positions at which the group of heading pattern rx may end, when the
\* pattern is tried at i
\*   1: (\d+\.?\s*[A-Z][^.]*)   2: ([A-Z][A-Z\s]+)   3: (\d+\.\d+\.?\s*[A-Z][^.]*)
HeadingGroupEnds(rx, text, i) ==
    LET d == RunEnd(text, i, Digit)
        afterDot(p) == IF p + 1 <= Len(text) /\ text[p + 1] = "." THEN p + 1 ELSE p
    IN  CASE rx = 1 ->
               IF d < i THEN {} ELSE UpperThenNonDots(text, afterDot(d) + 1)
          [] rx = 2 ->
               IF text[i] \in UpperCase
               THEN (i + 1)..RunEnd(text, i + 1, UpperCase \cup WhiteSpace)
               ELSE {}
          [] rx = 3 ->
               IF d < i \/ afterDot(d) = d THEN {}
               ELSE LET d2 == RunEnd(text, d + 2, Digit)
                    IN  IF d2 < d + 2 THEN {}
                        ELSE UpperThenNonDots(text, afterDot(d2) + 1)

\* the match of ^(group):?\s*$ at i: the longest group after which the tail
\* matches (the group is greedy); e = 0: no match
HeadingMatch(rx, text, i) ==
    IF ~IsLineStart(text, i) THEN [e |-> 0, m |-> 0]
    ELSE LET good == {e \in HeadingGroupEnds(rx, text, i) : HeadingTailEnd(text, e) >= 0}
         IN  IF good = {} THEN [e |-> 0, m |-> 0]
             ELSE [e |-> Max(good), m |-> HeadingTailEnd(text, Max(good))]

S_section ==
    <<"\\", "s", "e", "c", "t", "i", "o", "n", "{">>
S_subsection ==
    <<"\\", "s", "u", "b", "s", "e", "c", "t", "i", "o", "n", "{">>

\* re.sub(pattern, r'\\section{\1}', text, flags=re.MULTILINE)
RECURSIVE HeadingSubFrom(_, _, _, _)
HeadingSubFrom(rx, command, text, pos) ==
    LET starts == {i \in pos..Len(text) : HeadingMatch(rx, text, i).e > 0}
    IN  IF starts = {} THEN Tail_(text, pos)
        ELSE LET i == Min(starts)
                 hit == HeadingMatch(rx, text, i)
             IN  SubSeq(text, pos, i - 1) \o command \o SubSeq(text, i, hit.e) \o <<"}">>
                    \o HeadingSubFrom(rx, command, text, hit.m + 1)

_standardize_headings(text) ==
    HeadingSubFrom(3, S_subsection,
        HeadingSubFrom(2, S_section,
            HeadingSubFrom(1, S_section, text, 1), 1), 1)

\* str.split('\n')
RECURSIVE SplitLines(_)
SplitLines(text) ==
    LET nl == {i \in 1..Len(text) : text[i] = "\n"}
    IN  IF nl = {} THEN <<text>>
        ELSE <<SubSeq(text, 1, Min(nl) - 1)>> \o SplitLines(Tail_(text, Min(nl) + 1))

\* str.strip()
Strip(line) ==
    LET solid == {i \in 1..Len(line) : line[i] \notin WhiteSpace}
    IN  IF solid = {} THEN <<>> ELSE SubSeq(line, Min(solid), Max(solid))

\* '\n'.join(lines)
RECURSIVE JoinLines(_)
JoinLines(lines) ==
    IF Len(lines) = 1 THEN lines[1]
    ELSE lines[1] \o <<"\n">> \o JoinLines(Tail(lines))

\* every branch of the loop appends the stripped line
_add_standard_numbering(text) ==
    LET lines == SplitLines(text)
    IN  JoinLines([k \in 1..Len(lines) |-> Strip(lines[k])])

\* re.sub(r'\n\n+', r'\n\n', text)
RECURSIVE CollapseBlankLinesFrom(_, _)
CollapseBlankLinesFrom(text, pos) ==
    LET starts == {i \in pos..(Len(text) - 1) : text[i] = "\n" /\ text[i + 1] = "\n"}
    IN  IF starts = {} THEN Tail_(text, pos)
        ELSE LET i == Min(starts)
             IN  SubSeq(text, pos, i - 1) \o <<"\n", "\n">>
                    \o CollapseBlankLinesFrom(text, RunEnd(text, i, {"\n"}) + 1)

\* re.sub(r'([.!?])\s*([A-Z])', r'\1\n\n\2', text): the end of the match at i
SentenceBreakEnd(text, i) ==
    IF text[i] \notin {".", "!", "?"} THEN 0
    ELSE LET u == RunEnd(text, i + 1, WhiteSpace) + 1
         IN  IF u <= Len(text) /\ text[u] \in UpperCase THEN u ELSE 0

\* the sentence rule as it would be if it kept the white space it found and
\* added the break to it
RECURSIVE BreakSentencesKeepingSpaceFrom(_, _)
BreakSentencesKeepingSpaceFrom(text, pos) ==
    LET starts == {i \in pos..Len(text) : SentenceBreakEnd(text, i) > 0}
    IN  IF starts = {} THEN Tail_(text, pos)
        ELSE LET i == Min(starts)
                 u == SentenceBreakEnd(text, i)
             IN  SubSeq(text, pos, u - 1) \o <<"\n", "\n", text[u]>>
                    \o BreakSentencesKeepingSpaceFrom(text, u + 1)

RECURSIVE BreakSentencesFrom(_, _)
BreakSentencesFrom(text, pos) ==
    LET starts == {i \in pos..Len(text) : SentenceBreakEnd(text, i) > 0}
    IN  IF starts = {} THEN Tail_(text, pos)
        ELSE LET i == Min(starts)
                 u == SentenceBreakEnd(text, i)
             IN  SubSeq(text, pos, i) \o <<"\n", "\n", text[u]>>
                    \o BreakSentencesFrom(text, u + 1)

_improve_paragraphs(text) ==
    BreakSentencesFrom(CollapseBlankLinesFrom(text, 1), 1)

\* Rule 1: the scaffold of the document type, when it has one
AddStructure(text, analysis) ==
    CASE analysis.document_type = "OFFICE_MEMORANDUM" -> _add_memo_structure(text, analysis)
      [] analysis.document_type = "CIRCULAR" -> _add_circular_structure(text, analysis)
      [] analysis.document_type = "NOTIFICATION" -> _add_notification_structure(text, analysis)
      [] analysis.document_type = "REPORT" -> _add_report_structure(text, analysis)
      [] OTHER -> Ok(text)

\* Rules 2 to 4, on what Rule 1 returned (an exception of Rule 1 propagates)
FormatStructured(structured) ==
    IF structured.exc # "none" THEN structured
    ELSE Ok(_improve_paragraphs(_add_standard_numbering(
                _standardize_headings(structured.value))))

_code_based_conversion(text, analysis) == FormatStructured(AddStructure(text, analysis))
---------------------------------------------------------------------------
(* ai_processor.py: the fallback policy                                    *)

S_complex_table ==
    <<"c", "o", "m", "p", "l", "e", "x", " ", "t", "a", "b", "l", "e">>
S_mathematical_formula ==
    <<"m", "a", "t", "h", "e", "m", "a", "t", "i", "c", "a", "l", " ", "f", "o", "r", "m", "u",
      "l", "a">>

\* len(converted_text) > 3000
LengthThreshold == 3000
\* analysis.confidence_score < 0.7, in hundredths
ConfidenceThreshold == 70

\* x < 0.7 on floats: nan compares false
ConfidenceBelow(v, threshold) == v.t = "num" /\ v.n < threshold

\* indicators that look at the converted text only
complexity_indicators_of_text(converted_text, analysis) ==
    <<Len(converted_text) > LengthThreshold,
      Contains(Lower(converted_text), S_complex_table),
      Contains(Lower(converted_text), S_mathematical_formula)>>

complexity_indicators(converted_text, analysis) ==
    <<Len(converted_text) > LengthThreshold,
      ConfidenceBelow(analysis.confidence_score, ConfidenceThreshold),
      analysis.document_type = "UNKNOWN",
      Contains(Lower(converted_text), S_complex_table),
      Contains(Lower(converted_text), S_mathematical_formula),
      analysis.document_type \in {"LEGAL_DOCUMENT", "POLICY_DOCUMENT"}>>

\* a policy whose two thresholds are inclusive
_is_conversion_adequate_inclusive(converted_text, analysis) ==
    ~(\/ Len(converted_text) >= LengthThreshold
      \/ analysis.confidence_score.t = "num" /\ analysis.confidence_score.n <= ConfidenceThreshold
      \/ analysis.document_type \in {"UNKNOWN", "LEGAL_DOCUMENT", "POLICY_DOCUMENT"}
      \/ Contains(Lower(converted_text), S_complex_table)
      \/ Contains(Lower(converted_text), S_mathematical_formula))

\* not any(complexity_indicators)
_is_conversion_adequate(converted_text, analysis) ==
    LET ind == complexity_indicators(converted_text, analysis)
    IN  ~(\E k \in 1..Len(ind) : ind[k])
---------------------------------------------------------------------------
(* ai_processor.py: enhancement, metadata, suggestions                     *)

\* an enhancer that has nothing to return when the call fails
_gpt4_enhancement_losing_text(text, analysis, answer) ==
    IF answer.ok THEN answer.content ELSE <<>>

\* the call raised: the text it was given; else the service's text
_gpt4_enhancement(text, analysis, answer) ==
    IF answer.ok THEN answer.content ELSE text

S_today ==
    <<"\\", "t", "o", "d", "a", "y">>
S_formal_english ==
    <<"f", "o", "r", "m", "a", "l", "_", "e", "n", "g", "l", "i", "s", "h">>
S_CommaSpace ==
    <<",", " ">>

\* ", ".join(x): x must be iterable and yield strings only (a list of
\* strings, or a string, which yields its characters)
JoinOk(v) ==
    \/ v.t = "str"
    \/ v.t = "list" /\ \A k \in 1..Len(v.items) : v.items[k].t = "str"

JoinParts(v) ==
    IF v.t = "str" THEN [k \in 1..Len(v.s) |-> <<v.s[k]>>]
    ELSE [k \in 1..Len(v.items) |-> v.items[k].s]

RECURSIVE Join(_, _)
Join(sep, parts) ==
    IF parts = <<>> THEN <<>>
    ELSE IF Len(parts) = 1 THEN parts[1]
    ELSE parts[1] \o sep \o Join(sep, Tail(parts))

generate_metadata(analysis) ==
    IF ~JoinOk(analysis.key_sections) THEN Raised("TypeError")
    ELSE IF ~HasGet(analysis.formatting_requirements) THEN Raised("AttributeError")
    ELSE Ok([title |-> analysis.title,
             author |-> analysis.author,
             department |-> analysis.department,
             classification |-> analysis.classification,
             document_type |-> VStr(DocumentTypeValue[analysis.document_type]),
             template |-> analysis.suggested_template,
             date |-> VStr(S_today),
             summary |-> analysis.summary,
             keywords |-> VStr(Join(S_CommaSpace, JoinParts(analysis.key_sections))),
             language |-> Get(analysis.formatting_requirements.d, "language_style",
                              VStr(S_formal_english)),
             confidence |-> VStr(PyStr(analysis.confidence_score))])

S_DefaultSuggestion ==
    <<"D", "o", "c", "u", "m", "e", "n", "t", " ", "a", "n", "a", "l", "y", "s", "i", "s", " ",
      "c", "o", "m", "p", "l", "e", "t", "e", "d", ".", " ", "M", "a", "n", "u", "a", "l", " ",
      "r", "e", "v", "i", "e", "w", " ", "r", "e", "c", "o", "m", "m", "e", "n", "d", "e", "d",
      ".">>

\* re.findall(r'\d+\.\s*(.+)', suggestions_text): the match that starts at i,
\* as the group's first and last position (b = 0: no match). \s* is greedy
\* and gives back until one character other than a newline follows; .+ then
\* runs to the end of the line.
SuggestionMatch(text, i) ==
    LET d == RunEnd(text, i, Digit)
    IN  IF d < i \/ d + 1 > Len(text) \/ text[d + 1] # "." THEN [b |-> 0, e |-> 0]
        ELSE LET w == RunEnd(text, d + 2, WhiteSpace)
                 begins == {b \in (d + 2)..(w + 1) : b <= Len(text) /\ text[b] # "\n"}
             IN  IF begins = {} THEN [b |-> 0, e |-> 0]
                 ELSE [b |-> Max(begins),
                       e |-> LET nl == {j \in Max(begins)..Len(text) : text[j] = "\n"}
                             IN  IF nl = {} THEN Len(text) ELSE Min(nl) - 1]

RECURSIVE FindSuggestionsFrom(_, _)
FindSuggestionsFrom(text, pos) ==
    LET starts == {i \in pos..Len(text) : SuggestionMatch(text, i).b > 0}
    IN  IF starts = {} THEN <<>>
        ELSE LET hit == SuggestionMatch(text, Min(starts))
             IN  <<SubSeq(text, hit.b, hit.e)>> \o FindSuggestionsFrom(text, hit.e + 1)

suggest_improvements(text, analysis, answer) ==
    IF answer.ok THEN FindSuggestionsFrom(answer.content, 1)
    ELSE <<S_DefaultSuggestion>>

---------------------------------------------------------------------------
(* template_engine.py: the templates. A rendered document is the template  *)
(* chosen and the values placed in its skeleton.                           *)

S_GovernmentDocument ==
    <<"G", "o", "v", "e", "r", "n", "m", "e", "n", "t", " ", "D", "o", "c", "u", "m", "e", "n",
      "t">>
S_GovernmentOfIndia ==
    <<"G", "o", "v", "e", "r", "n", "m", "e", "n", "t", " ", "o", "f", " ", "I", "n", "d", "i",
      "a">>
S_DepartmentName ==
    <<"D", "e", "p", "a", "r", "t", "m", "e", "n", "t", " ", "N", "a", "m", "e">>
S_ResearchPaper ==
    <<"R", "e", "s", "e", "a", "r", "c", "h", " ", "P", "a", "p", "e", "r">>
S_AuthorName ==
    <<"A", "u", "t", "h", "o", "r", " ", "N", "a", "m", "e">>
S_InstitutionName ==
    <<"I", "n", "s", "t", "i", "t", "u", "t", "i", "o", "n", " ", "N", "a", "m", "e">>
S_AbstractHere ==
    <<"A", "b", "s", "t", "r", "a", "c", "t", " ", "c", "o", "n", "t", "e", "n", "t", " ", "h",
      "e", "r", "e", ".">>
S_KeywordsHere ==
    <<"k", "e", "y", "w", "o", "r", "d", "1", ",", " ", "k", "e", "y", "w", "o", "r", "d", "2",
      ",", " ", "k", "e", "y", "w", "o", "r", "d", "3">>
S_ProfessionalReport ==
    <<"P", "r", "o", "f", "e", "s", "s", "i", "o", "n", "a", "l", " ", "R", "e", "p", "o", "r",
      "t">>
S_ReportAuthor ==
    <<"R", "e", "p", "o", "r", "t", " ", "A", "u", "t", "h", "o", "r">>
S_ExecSummaryHere ==
    <<"E", "x", "e", "c", "u", "t", "i", "v", "e", " ", "s", "u", "m", "m", "a", "r", "y", " ",
      "c", "o", "n", "t", "e", "n", "t", ".">>

\* escape_latex(x) of a value: what is no string is returned as str(x)
EscapeValue(v) == IF v.t = "str" THEN escape_latex(v.s) ELSE PyStr(v)

get_government_template(metadata, content) ==
    Ok([template |-> "government",
        placed |->
            [title |-> EscapeValue(Get(metadata, "title", VStr(S_GovernmentDocument))),
             author |-> EscapeValue(Get(metadata, "author", VStr(S_GovernmentOfIndia))),
             department |-> EscapeValue(Get(metadata, "department", VStr(S_DepartmentName))),
             classification |-> EscapeValue(Get(metadata, "classification", VStr(S_Public))),
             file_number |-> EscapeValue(Get(metadata, "file_number", VStr(S_DefaultFileNo))),
             content |-> clean_content_for_latex(content)]])

get_academic_template(metadata, content) ==
    Ok([template |-> "academic",
        placed |->
            [title |-> PyStr(Get(metadata, "title", VStr(S_ResearchPaper))),
             author |-> PyStr(Get(metadata, "author", VStr(S_AuthorName))),
             department |-> PyStr(Get(metadata, "department", VStr(S_InstitutionName))),
             summary |-> PyStr(Get(metadata, "summary", VStr(S_AbstractHere))),
             keywords |-> PyStr(Get(metadata, "keywords", VStr(S_KeywordsHere))),
             content |-> content]])

\* its def line is missing: the body of the legal template follows the return
\* of get_minimal_template, and the class has no attribute get_legal_template
get_legal_template(metadata, content) == Raised("AttributeError")

get_report_template(metadata, content) ==
    Ok([template |-> "report",
        placed |->
            [title |-> PyStr(Get(metadata, "title", VStr(S_ProfessionalReport))),
             author |-> PyStr(Get(metadata, "author", VStr(S_ReportAuthor))),
             summary |-> PyStr(Get(metadata, "summary", VStr(S_ExecSummaryHere))),
             content |-> content]])

get_template_by_type(template_type, metadata, content) ==
    CASE template_type = VStr(S_indian_government) -> get_government_template(metadata, content)
      [] template_type = VStr(S_academic_formal) -> get_academic_template(metadata, content)
      [] template_type = VStr(S_legal_standard) -> get_legal_template(metadata, content)
      [] template_type = VStr(S_corporate_report) -> get_report_template(metadata, content)
      [] OTHER -> get_government_template(metadata, content)
\* the rule engine's output, whether the conversion model was called, and the
\* content returned; answer is what the service does if it is called
\* a hybrid conversion that asks the conversion model whatever the policy says
FallBackAlways(converted, analysis, answer) ==
    IF converted.exc # "none"
    THEN [exc |-> converted.exc, code_converted |-> <<>>, called |-> FALSE, value |-> <<>>]
    ELSE [exc |-> "none", code_converted |-> converted.value, called |-> TRUE,
          value |-> _gpt4_enhancement(converted.value, analysis, answer)]

\* Steps 2 and 3, on what the rule engine returned
FallBackIfInadequate(converted, analysis, answer) ==
    IF converted.exc # "none"
    THEN [exc |-> converted.exc, code_converted |-> <<>>, called |-> FALSE, value |-> <<>>]
    ELSE IF _is_conversion_adequate(converted.value, analysis)
    THEN [exc |-> "none", code_converted |-> converted.value, called |-> FALSE,
          value |-> converted.value]
    ELSE [exc |-> "none", code_converted |-> converted.value, called |-> TRUE,
          value |-> _gpt4_enhancement(converted.value, analysis, answer)]

convert_with_hybrid_approach(text, analysis, answer) ==
    FallBackIfInadequate(_code_based_conversion(text, analysis), analysis, answer)

\* `if value:` for a string or None
Truthy(v) == v.t = "str" /\ v.s # <<>>

\* if user_title: metadata['title'] = user_title; analysis.title = user_title
\* (and the same for the author): applied to the metadata and to the analysis
Override(target, overrides) ==
    [target EXCEPT !.title = IF Truthy(overrides.title) THEN overrides.title ELSE @,
                   !.author = IF Truthy(overrides.author) THEN overrides.author ELSE @]

---------------------------------------------------------------------------
(* app_ai.py, app.py: conversion without the service                       *)

UpperOf(c) ==
    IF c \in LowerCase THEN AlphabetUpper[CHOOSE k \in 1..26 : AlphabetLower[k] = c] ELSE c

\* str.isupper(): a cased character, and no lower-case one
IsUpper(line) ==
    /\ \E i \in 1..Len(line) : line[i] \in UpperCase
    /\ \A i \in 1..Len(line) : line[i] \notin LowerCase

\* str.title(): a letter is upper-cased after what is no letter, lower-cased
\* after a letter
Title(line) ==
    [i \in 1..Len(line) |->
        IF i > 1 /\ line[i - 1] \in Letter THEN LowerOf(line[i]) ELSE UpperOf(line[i])]

StartsWith(line, prefix) ==
    Len(line) >= Len(prefix) /\ SubSeq(line, 1, Len(prefix)) = prefix

S_Subject ==
    <<"S", "u", "b", "j", "e", "c", "t", ":">>
S_No ==
    <<"N", "o", ".">>
S_Dated ==
    <<"D", "a", "t", "e", "d", ":">>
S_sectionOpen ==
    <<"\\", "s", "e", "c", "t", "i", "o", "n", "{">>
S_subsectionOpen ==
    <<"\\", "s", "u", "b", "s", "e", "c", "t", "i", "o", "n", "{">>
S_textbfOpen ==
    <<"\\", "t", "e", "x", "t", "b", "f", "{">>
S_textitOpen ==
    <<"\\", "t", "e", "x", "t", "i", "t", "{">>
S_vspace ==
    <<"\\", "v", "s", "p", "a", "c", "e", "{", "1", "e", "m", "}">>
S_Author ==
    <<"A", "u", "t", "h", "o", "r">>
S_GeneratedOnline ==
    <<"G", "e", "n", "e", "r", "a", "t", "e", "d", " ", "O", "n", "l", "i", "n", "e">>
HeadingMinLen == 10
SignatureMaxLen == 50

RECURSIVE Flatten(_)
Flatten(seqs) == IF seqs = <<>> THEN <<>> ELSE seqs[1] \o Flatten(Tail(seqs))

\* the lines the loop of fallback_conversion appends for one line of input
FallbackLines(raw) ==
    LET line == Strip(raw)
    IN  IF line = <<>> THEN << <<>> >>
        ELSE IF IsUpper(line) /\ Len(line) > HeadingMinLen
            THEN <<S_sectionOpen \o escape_latex(Title(line)) \o <<"}">>, <<>> >>
        ELSE IF StartsWith(line, S_Subject)
            THEN <<S_subsectionOpen \o escape_latex(line) \o <<"}">>, <<>> >>
        ELSE IF StartsWith(line, S_No) \/ StartsWith(line, S_Dated)
            THEN <<S_textbfOpen \o escape_latex(line) \o <<"}">>, <<>>, <<>> >>
        ELSE <<escape_latex(line), <<>> >>

FallbackContent(content) ==
    LET lines == SplitLines(content)
    IN  JoinLines(Flatten([k \in 1..Len(lines) |-> FallbackLines(lines[k])]))

fallback_conversion(content, title, author) ==
    get_template_by_type(VStr(S_basic),
                         [title |-> VStr(escape_latex(title)),
                          author |-> VStr(escape_latex(author)),
                          date |-> VStr(S_today)],
                         FallbackContent(content))

\* the lines the loop of text_to_latex appends for one line of input
PlainLines(raw) ==
    LET line == Strip(raw)
    IN  IF line = <<>> THEN << <<>> >>
        ELSE IF IsUpper(line) /\ Len(line) > HeadingMinLen
            THEN <<S_sectionOpen \o Title(line) \o <<"}">>, <<>> >>
        ELSE IF StartsWith(line, S_Subject)
            THEN <<S_subsectionOpen \o line \o <<"}">>, <<>> >>
        ELSE IF StartsWith(line, S_No) \/ StartsWith(line, S_Dated)
            THEN <<S_textbfOpen \o line \o <<"}">>, <<>>, <<>> >>
        ELSE IF Contains(line, <<"(">>) /\ line[Len(line)] = ")" /\ Len(line) < SignatureMaxLen
            THEN <<S_vspace, S_textitOpen \o line \o <<"}">>, <<>> >>
        ELSE <<Replace(Replace(Replace(line, "&", <<"\\", "&">>), "%", <<"\\", "%">>),
                       "$", <<"\\", "$">>), <<>> >>

text_to_latex(text) ==
    LET lines == SplitLines(text)
    IN  JoinLines(Flatten([k \in 1..Len(lines) |-> PlainLines(lines[k])]))

generate_latex_document(content, title, author) ==
    [template |-> "styled",
     placed |-> [title |-> title, author |-> author, date |-> S_GeneratedOnline,
                 content |-> content]]
---------------------------------------------------------------------------
(* Escaping as a function of its input: every short content string over   *)
(* the special characters, alone and around a markup command.              *)

MaxContentLen == 3

EscapeAlphabet == {"\\", "s", "{", "}", "&", "%", "_", "^", "~", "\n", " ", "U+0915"}

ShortContents == UNION {[1..n -> EscapeAlphabet] : n \in 0..MaxContentLen}

PlainExample ==
    <<"1", "0", "0", "%", " ", "&", " ", "$", "5", " ", "t", "a", "x", "_", "r", "a", "t", "e">>
PlainExampleEscaped ==
    <<"1", "0", "0", "\\", "%", " ", "\\", "&", " ", "\\", "$", "5", " ", "t", "a", "x", "\\",
      "_", "r", "a", "t", "e">>
MarkupExample ==
    <<"\\", "s", "e", "c", "t", "i", "o", "n", "{", "I", "n", "t", "r", "o", " ", "&", " ",
      "S", "u", "m", "m", "a", "r", "y", "}">>
MarkupExampleCleaned ==
    <<"\\", "s", "e", "c", "t", "i", "o", "n", "{", "I", "n", "t", "r", "o", " ", "\\", "&",
      " ", "S", "u", "m", "m", "a", "r", "y", "}">>
SectionCommand == <<"\\", "s", "e", "c", "{", "}">>

EscapeInputs ==
    ShortContents
        \cup {SectionCommand \o s : s \in ShortContents}
        \cup {s \o SectionCommand : s \in ShortContents}
        \cup {PlainExample, MarkupExample}

EscapeInit == HarnessInit(EscapeInputs)

EscapeLatex == Apply("escape_latex", escape_latex(arg))

CleanContent == Apply("clean_content_for_latex", clean_content_for_latex(arg))

EscapeNext == EscapeLatex \/ CleanContent

SpecEscape == EscapeInit /\ [][EscapeNext]_vars

\* what one character of the input becomes when each of the characters of
\* table is mapped to its glyph once, independently of its neighbours
GlyphOf(c, table) ==
    IF \E k \in 1..Len(table) : table[k][1] = c
    THEN table[CHOOSE k \in 1..Len(table) : table[k][1] = c][2]
    ELSE <<c>>

RECURSIVE MapGlyphs(_, _)
MapGlyphs(text, table) ==
    IF text = <<>> THEN <<>>
    ELSE GlyphOf(Head(text), table) \o MapGlyphs(Tail(text), table)

\* C5: full escaping maps each of the ten special characters of the input
\* to its literal glyph exactly once (the escaping backslash is not itself
\* rewritten), so '100% & $5 tax_rate' becomes '100\% \& \$5 tax\_rate'.
C5_FullEscapeMapsEachCharOnce ==
    op = "escape_latex" => res = MapGlyphs(DropNonAscii(arg), latex_special_chars)

\* the markup-command pattern, stated on positions: a backslash at i, letters
\* only strictly between i and j, at least one of them, an opening brace at j
ContainsMarkupCommand(text) ==
    \E i \in 1..Len(text), j \in 1..Len(text) :
        /\ j > i + 1
        /\ text[i] = "\\"
        /\ text[j] = "{"
        /\ \A k \in (i + 1)..(j - 1) : text[k] \in Letter

\* C6: two-mode escaping. Content is treated as marked up exactly when it
\* contains a backslash, one or more letters and an opening brace; then only
\* & # $ % _ ^ ~ are replaced, each once, and every backslash and brace of the
\* content stays as it is; any other content goes through full escaping. The
\* mode is chosen once for the whole string.
C6_TwoModeEscaping ==
    op = "clean_content_for_latex" =>
        IF ContainsMarkupCommand(arg)
        THEN res = NormalizeFormatting(MapGlyphs(arg, selective_chars))
        ELSE res = NormalizeFormatting(escape_latex(arg))

C6_Witness ==
    /\ op = "clean_content_for_latex"
    /\ arg = MarkupExample
    /\ res = MarkupExampleCleaned

---------------------------------------------------------------------------
(* The classifier as a function of the service's answer.                   *)

S_AnnualPlan ==
    <<"A", "n", "n", "u", "a", "l", " ", "P", "l", "a", "n">>
S_RnD ==
    <<"R", "&", "D", "_", "5", "0", "%">>
S_Rao ==
    <<"A", ".", " ", "R", "a", "o">>
S_Ministry ==
    <<"M", "i", "n", "i", "s", "t", "r", "y", " ", "o", "f", " ", "F", "i", "n", "a", "n", "c",
      "e">>
S_Restricted ==
    <<"R", "e", "s", "t", "r", "i", "c", "t", "e", "d">>
S_Summary ==
    <<"A", " ", "s", "u", "m", "m", "a", "r", "y", ".">>
S_Scope ==
    <<"S", "c", "o", "p", "e">>
S_Budget ==
    <<"B", "u", "d", "g", "e", "t">>
S_formal_hindi_english ==
    <<"f", "o", "r", "m", "a", "l", "_", "h", "i", "n", "d", "i", "_", "e", "n", "g", "l", "i",
      "s", "h">>
S_FileNo ==
    <<"F", ".", "1", "2", "/", "2", "0", "2", "5">>
S_memo ==
    <<"m", "e", "m", "o">>
S_Report ==
    <<"R", "e", "p", "o", "r", "t">>
S_high ==
    <<"h", "i", "g", "h">>
S_0_9 ==
    <<"0", ".", "9">>

AnalysisKeys ==
    {"document_type", "title", "author", "department", "classification", "summary",
     "key_sections", "formatting_requirements", "suggested_template", "confidence_score"}

\* a complete, well-typed classification
FullData ==
    [document_type |-> VStr(DocumentTypeValue.REPORT),
     title |-> VStr(S_AnnualPlan),
     author |-> VStr(S_Rao),
     department |-> VStr(S_Ministry),
     classification |-> VStr(S_Restricted),
     summary |-> VStr(S_Summary),
     key_sections |-> VList(<<VStr(S_Scope), VStr(S_Budget)>>),
     formatting_requirements |->
        VDict([language_style |-> VStr(S_formal_hindi_english), file_number |-> VStr(S_FileNo)]),
     suggested_template |-> VStr(S_academic_formal),
     confidence_score |-> VNum(90)]

\* what the service may put in a field instead
FieldOptions ==
    [document_type |->
        {VStr(DocumentTypeValue[m]) : m \in DocumentType}
            \cup {VStr(S_memo), VStr(S_Report), VStr(<<>>), VNull},
     title |-> {VStr(S_RnD), VNull},
     author |-> {VStr(S_RnD), VNull},
     department |-> {VNull},
     classification |-> {VStr(S_Public), VNull},
     summary |-> {VStr(S_RnD), VNull},
     key_sections |-> {VList(<<>>), VList(<<VNum(100)>>), VStr(S_Scope), VNull},
     formatting_requirements |-> {VDict(EmptyDict), VList(<<>>), VNull},
     suggested_template |->
        {VStr(S_indian_government), VStr(S_legal_standard), VStr(S_corporate_report),
         VStr(S_basic), VStr(<<>>), VNull},
     confidence_score |->
        {VNum(0), VNum(69), VNum(70), VNum(71), VNum(100), VNum(150), VNum(-100), VNaN,
         VStr(S_0_9), VStr(S_high), VNull}]

Without(d, key) == [k \in DOMAIN d \ {key} |-> d[k]]

VaryOneField(S) ==
    S \cup {Without(d, k) : d \in S, k \in AnalysisKeys}
      \cup UNION {{[d EXCEPT ![k] = v] : v \in FieldOptions[k]} :
                    d \in S, k \in AnalysisKeys}

RECURSIVE Variations(_)
Variations(n) == IF n = 0 THEN {FullData} ELSE VaryOneField(Variations(n - 1))

MaxVariedFields == 1

\* the texts in which the service may wrap an object with members d
ObjectTexts(d) ==
    {<<Tok("{"), Members(d), Tok("}")>>,
     <<Tok("text"), Tok("{"), Members(d), Tok("}"), Tok("text")>>,
     <<Tok("{"), Members(d), Tok("}"), Tok("text"), Tok("{"), Members(d), Tok("}")>>,
     <<Tok("{"), Tok("text"), Members(d), Tok("}")>>}

OtherTexts ==
    {<<>>,
     <<Tok("text")>>,
     <<Tok("{"), Tok("}")>>,
     <<Tok("}"), Tok("text"), Tok("{")>>,
     <<Tok("{"), Members(FullData)>>,
     <<Tok("{"), Tok("text"), Tok("}")>>}

ClassificationAnswers(S) ==
    {CallFailed} \cup {CallReturned(c) : c \in OtherTexts \cup UNION {ObjectTexts(d) : d \in S}}

AnalyzeInit == HarnessInit(ClassificationAnswers(Variations(MaxVariedFields)))

AnalyzeDocument == Apply("analyze_document", analyze_document(arg))

AnalyzeNext == AnalyzeDocument

SpecAnalyze == AnalyzeInit /\ [][AnalyzeNext]_vars

\* the conditions under which the documentation requires the default, read off the
\* answer itself
AnswerHasNoObject(content) ==
    LET opens == {p \in 1..Len(content) : content[p].k = "{"}
        closes == {p \in 1..Len(content) : content[p].k = "}"}
    IN  opens = {} \/ closes = {} \/ \A p \in closes : p < Min(opens)

AnswerInner(content) ==
    SubSeq(content,
           Min({p \in 1..Len(content) : content[p].k = "{"}) + 1,
           Max({p \in 1..Len(content) : content[p].k = "}"}) - 1)

AnswerNotJson(content) ==
    ~AnswerHasNoObject(content)
        /\ ~(\/ AnswerInner(content) = <<>>
             \/ Len(AnswerInner(content)) = 1 /\ AnswerInner(content)[1].k = "members")

AnswerTypeOutsideEnum(content) ==
    /\ ~AnswerHasNoObject(content)
    /\ Len(AnswerInner(content)) = 1
    /\ AnswerInner(content)[1].k = "members"
    /\ "document_type" \in DOMAIN AnswerInner(content)[1].d
    /\ AnswerInner(content)[1].d["document_type"].t = "str"
    /\ AnswerInner(content)[1].d["document_type"].s
            \notin {DocumentTypeValue[m] : m \in DocumentType}

AnswerMustDefault(answer) ==
    \/ ~answer.ok
    \/ AnswerHasNoObject(answer.content)
    \/ AnswerNotJson(answer.content)
    \/ AnswerTypeOutsideEnum(answer.content)

\* C2: analyze_document never raises, and whenever the call fails, the answer
\* holds no brace-delimited object, the object is not valid JSON or its
\* document_type is a string outside the enumeration, the result is exactly
\* the default analysis, with no field taken from the answer.
C2_AnalyzeFailSoft ==
    op = "analyze_document" =>
        /\ DOMAIN res = AnalysisKeys
        /\ res.document_type \in DocumentType
        /\ AnswerMustDefault(arg) =>
            res = [document_type |-> "UNKNOWN",
                   title |-> VStr(S_Document),
                   author |-> VStr(S_Unknown),
                   department |-> VStr(S_UnknownDepartment),
                   classification |-> VStr(S_Public),
                   summary |-> VStr(S_AnalysisFailed),
                   key_sections |-> VList(<<>>),
                   formatting_requirements |-> VDict(EmptyDict),
                   suggested_template |-> VStr(S_indian_government),
                   confidence_score |-> VNum(0)]

\* an answer with a usable title and an unrecognized type yields the default
C2_Witness ==
    /\ op = "analyze_document"
    /\ arg.ok
    /\ AnswerTypeOutsideEnum(arg.content)
    /\ "title" \in DOMAIN AnswerInner(arg.content)[1].d
    /\ res.title = VStr(S_Document)
    /\ res.document_type = "UNKNOWN"

\* the members of the one object of an answer that is not required to
\* default
AnswerData(answer) ==
    IF AnswerInner(answer.content) = <<>> THEN EmptyDict
    ELSE AnswerInner(answer.content)[1].d

\* C12: every analysis analyze_document returns has a confidence that is a
\* finite number between 0 and 1, also when the answer's JSON gives 1.5, -1
\* or a value that is not finite.
C12_ConfidenceInUnitInterval ==
    op = "analyze_document" =>
        /\ res.confidence_score.t = "num"
        /\ res.confidence_score.n >= 0
        /\ res.confidence_score.n <= 100

\* C13: when the answer holds valid JSON, each field missing from it has the
\* documented default of that field (the summary 'Document analysis failed'
\* among them).
C13_MissingFieldsDefault ==
    (op = "analyze_document" /\ ~AnswerMustDefault(arg)) =>
        \A key \in AnalysisKeys \ DOMAIN AnswerData(arg) : res[key] = DefaultAnalysis[key]

TextFields == {"title", "author", "department", "classification", "summary",
               "suggested_template"}

\* a field of the answer that has not the type of the schema
ViolatesSchema(d) ==
    \/ \E key \in TextFields \cap DOMAIN d : d[key].t # "str"
    \/ /\ "key_sections" \in DOMAIN d
       /\ \/ d["key_sections"].t # "list"
          \/ \E k \in 1..Len(d["key_sections"].items) : d["key_sections"].items[k].t # "str"
    \/ "formatting_requirements" \in DOMAIN d /\ d["formatting_requirements"].t # "dict"

\* the stages that read the analysis accept it
DownstreamAccepts(analysis) ==
    /\ generate_metadata(analysis).exc = "none"
    /\ \A m \in DocumentType :
          AddStructure(<<>>, [analysis EXCEPT !.document_type = m]).exc = "none"

\* C14: an answer that is valid JSON and violates the schema (key_sections
\* that is no list of strings, formatting_requirements that is no mapping, a
\* field that is null) yields the full default analysis, so the scaffold and
\* the metadata assembly never fail on the analysis returned.
C14_SchemaViolationDefaults ==
    op = "analyze_document" =>
        /\ (~AnswerMustDefault(arg) /\ ViolatesSchema(AnswerData(arg))) => res = DefaultAnalysis
        /\ DownstreamAccepts(res)

---------------------------------------------------------------------------
(* The fallback policy as a function of the text and the analysis.         *)

Filler(n) == [i \in 1..n |-> "x"]

S_Note ==
    <<"B", "u", "d", "g", "e", "t", " ", "n", "o", "t", "e", " ", "f", "o", "r", " ", "t", "h",
      "e", " ", "y", "e", "a", "r">>
S_HasTable ==
    <<"S", "e", "e", " ", "t", "h", "e", " ", "C", "o", "m", "p", "l", "e", "x", " ", "T", "a",
      "b", "l", "e", " ", "b", "e", "l", "o", "w">>
S_HasFormula ==
    <<"A", " ", "M", "A", "T", "H", "E", "M", "A", "T", "I", "C", "A", "L", " ", "F", "O", "R",
      "M", "U", "L", "A">>
S_NearTable ==
    <<"c", "o", "m", "p", "l", "e", "x", " ", " ", "t", "a", "b", "l", "e", ",", " ", "c", "o",
      "m", "p", "l", "e", "x", "t", "a", "b", "l", "e">>

PolicyTexts ==
    {<<>>, S_Note, S_HasTable, S_HasFormula, S_NearTable,
     Filler(LengthThreshold - 1), Filler(LengthThreshold), Filler(LengthThreshold + 1),
     S_HasTable \o Filler(LengthThreshold - Len(S_HasTable))}

\* the analyses the classifier returns for the object answers, and the default
AnalysesOf(S) ==
    {DefaultAnalysis}
        \cup {analyze_document(CallReturned(<<Tok("{"), Members(d), Tok("}")>>)) : d \in S}

PolicyConfidences ==
    {VNum(0), VNum(69), VNum(70), VNum(71), VNum(95), VNum(100), VNum(150), VNaN}

\* every type at every confidence, around analyses that differ in all else
PolicyAnalyses ==
    {[a EXCEPT !.document_type = m, !.confidence_score = c] :
        a \in AnalysesOf({FullData}), m \in DocumentType, c \in PolicyConfidences}

PolicyInit ==
    HarnessInit({[text |-> tx, analysis |-> a] : tx \in PolicyTexts, a \in PolicyAnalyses})

IsConversionAdequate ==
    Apply("_is_conversion_adequate", _is_conversion_adequate(arg.text, arg.analysis))

PolicyNext == IsConversionAdequate

SpecPolicy == PolicyInit /\ [][PolicyNext]_vars

SameIgnoringCase(a, b) ==
    a = b \/ \E k \in 1..26 : {a, b} = {AlphabetUpper[k], AlphabetLower[k]}

ContainsIgnoringCase(text, phrase) ==
    \E i \in 1..(Len(text) - Len(phrase) + 1) :
        \A k \in 1..Len(phrase) : SameIgnoringCase(text[i + k - 1], phrase[k])

\* C3: enhancement is needed exactly when one of the six indicators holds:
\* more than 3000 characters, confidence below 0.7, type unknown, 'complex
\* table' or 'mathematical formula' in any letter case, type legal_document
\* or policy_document. 3000 characters and confidence 0.7 do not trigger it.
C3_SixIndicatorOr ==
    op = "_is_conversion_adequate" =>
        (~res <=>
            \/ Len(arg.text) >= 3001
            \/ (arg.analysis.confidence_score.t = "num" /\ arg.analysis.confidence_score.n <= 69)
            \/ arg.analysis.document_type = "UNKNOWN"
            \/ ContainsIgnoringCase(arg.text, S_complex_table)
            \/ ContainsIgnoringCase(arg.text, S_mathematical_formula)
            \/ arg.analysis.document_type = "LEGAL_DOCUMENT"
            \/ arg.analysis.document_type = "POLICY_DOCUMENT")

\* exactly 3000 characters at confidence 0.7 and a plain type: adequate
C3_Witness ==
    /\ op = "_is_conversion_adequate"
    /\ Len(arg.text) = 3000
    /\ arg.analysis.confidence_score = VNum(70)
    /\ arg.analysis.document_type = "REPORT"
    /\ res = TRUE

---------------------------------------------------------------------------
(* Template selection as a function of its input                           *)

S_research_paper ==
    <<"r", "e", "s", "e", "a", "r", "c", "h", "_", "p", "a", "p", "e", "r">>

TemplateIds ==
    {S_indian_government, S_academic_formal, S_legal_standard, S_corporate_report,
     S_basic, <<>>, S_research_paper}

\* the metadata generate_metadata builds from the analyses of the objects
\* that differ from a well-typed one in one field, and the dictionary
\* fallback_conversion passes
TemplateMetadata ==
    {generate_metadata(a).value :
        a \in {b \in AnalysesOf(VaryOneField({FullData})) : generate_metadata(b).exc = "none"}}
      \cup {[title |-> VStr(S_Document), author |-> VStr(S_Author), date |-> VStr(S_today)]}

TemplateContents == {S_Note, PlainExample, MarkupExample}

TemplateInit ==
    HarnessInit({[template_type |-> VStr(id), metadata |-> md, content |-> c] :
                    id \in TemplateIds, md \in TemplateMetadata, c \in TemplateContents})

GetTemplateByType ==
    Apply("get_template_by_type",
          get_template_by_type(arg.template_type, arg.metadata, arg.content))

TemplateNext == GetTemplateByType

SpecTemplate == TemplateInit /\ [][TemplateNext]_vars

\* the metadata values a template places that the metadata holds as strings
PlacedFromMetadata(placed, metadata) ==
    {f \in (DOMAIN placed \cap DOMAIN metadata) \ {"content"} : metadata[f].t = "str"}

\* the template the documentation assigns to an id
DocumentedTemplate(id) ==
    CASE id = S_indian_government -> "government"
      [] id = S_academic_formal -> "academic"
      [] id = S_legal_standard -> "legal"
      [] id = S_corporate_report -> "report"
      [] OTHER -> "government"

\* C4: get_template_by_type renders every template id and never raises: each
\* id of the fixed set by its own template, every other id by the government
\* template.
C4_EveryTemplateIdRenders ==
    op = "get_template_by_type" =>
        /\ res.exc = "none"
        /\ res.value.template = DocumentedTemplate(arg.template_type.s)

---------------------------------------------------------------------------
(* The suggestions as a function of the service's answer                   *)

S_NumberedList ==
    <<"1", ".", " ", "U", "s", "e", " ", "h", "e", "a", "d", "i", "n", "g", "s", "\n", "2",
      ".", " ", "S", "h", "o", "r", "t", "e", "n", " ", "t", "h", "e", " ", "s", "u", "m", "m",
      "a", "r", "y">>
S_NoList ==
    <<"T", "h", "e", " ", "d", "o", "c", "u", "m", "e", "n", "t", " ", "r", "e", "a", "d", "s",
      " ", "w", "e", "l", "l", ".">>
MaxAnswerLen == 3
AnswerAlphabet == {"1", ".", " ", "\n", "a"}

ShortAnswers == UNION {[1..n -> AnswerAlphabet] : n \in 0..MaxAnswerLen}

SuggestInit ==
    HarnessInit({CallFailed}
                  \cup {CallReturned(t) : t \in ShortAnswers \cup {S_NumberedList, S_NoList}})

SuggestImprovementsOf == Apply("suggest_improvements", suggest_improvements(S_Note, DefaultAnalysis, arg))

SuggestNext == SuggestImprovementsOf

SpecSuggest == SuggestInit /\ [][SuggestNext]_vars

\* C9: suggest_improvements never returns an empty list: every answer of the
\* service yields at least one suggestion, and a failed call yields exactly
\* the one default suggestion.
C9_SuggestionsNeverEmpty ==
    op = "suggest_improvements" =>
        /\ Len(res) >= 1
        /\ ~arg.ok => res = <<S_DefaultSuggestion>>
---------------------------------------------------------------------------
(* The entry points: ai_convert.py (command line), app_ai.py (upload with  *)
(* the service), app.py (upload without it). One request is followed from  *)
(* the text read_input_file returned to what the entry point reports.      *)

S_auto ==
    <<"a", "u", "t", "o">>
S_Blank ==
    <<" ", " ", "\n">>
S_Memo ==
    <<"S", "C", "O", "P", "E", ":", "\n", "A", "l", "l", " ", "u", "n", "i", "t", "s", " ",
      "r", "e", "p", "o", "r", "t", ".", " ", "B", "u", "d", "g", "e", "t", " ", "i", "s", " ",
      "d", "u", "e", ".">>
S_Enhanced ==
    <<"G", "O", "V", "E", "R", "N", "M", "E", "N", "T", " ", "O", "F", " ", "I", "N", "D", "I",
      "A", "\n", "1", ".", " ", "S", "c", "o", "p", "e", " ", "&", " ", "p", "u", "r", "p",
      "o", "s", "e">>

S_Example ==
    <<"A", "N", "N", "U", "A", "L", " ", "C", "O", "M", "P", "L", "I", "A", "N", "C", "E", " ",
      "R", "E", "P", "O", "R", "T", "\n", "\n", "S", "u", "b", "j", "e", "c", "t", ":", " ",
      "T", "a", "x", " ", "F", "i", "l", "i", "n", "g", "\n", "\n", "D", "e", "t", "a", "i",
      "l", "s", " ", "f", "o", "l", "l", "o", "w", ".">>
S_Padded ==
    <<" ", " ", "B", "u", "d", "g", "e", "t", " ", "n", "o", "t", "e", " ", " ", "\n", "\t",
      "f", "o", "r", " ", "t", "h", "e", " ", "y", "e", "a", "r", " ">>

\* the documents uploaded: empty, blank, plain, one with a heading, one that
\* mentions a complex table, one with a title line and a subject line
PipelineTexts == {<<>>, S_Blank, S_Note, S_Memo, S_HasTable, S_Example}

\* the classifications the service returns: none, no object, a well-typed
\* object, and every object that differs from it in one field
PipelineClassifications ==
    {CallFailed, CallReturned(<<Tok("text")>>)}
        \cup {CallReturned(<<Tok("text"), Tok("{"), Members(d), Tok("}")>>) :
                d \in VaryOneField({FullData})}

PipelineEnhancements == {CallFailed, CallReturned(S_Enhanced), CallReturned(<<>>)}

PipelineSuggestions == {CallFailed, CallReturned(S_NumberedList), CallReturned(S_NoList)}

S_Spaces ==
    <<" ", " ">>

\* --title/--author are absent (None) or given, as typed; a form field is a
\* string as typed
CliRequests ==
    {[title |-> t, author |-> a, template |-> VStr(S_auto), use_ai |-> TRUE, api_key |-> k] :
        t \in {VNull, VStr(S_RnD), VStr(S_Spaces)}, a \in {VNull, VStr(S_Rao)},
        k \in BOOLEAN}

AiFormRequests ==
    {[title |-> VStr(t), author |-> VStr(<<>>), template |-> VStr(c), use_ai |-> u,
      api_key |-> k] :
        t \in {<<>>, S_RnD, S_Spaces}, c \in {S_auto, S_corporate_report}, u \in BOOLEAN,
        k \in BOOLEAN}

PlainFormRequests ==
    {[title |-> VStr(t), author |-> VStr(S_Author), template |-> VStr(S_auto),
      use_ai |-> FALSE, api_key |-> FALSE] : t \in {S_Document, S_RnD}}

Init ==
    /\ op = "none" /\ arg = <<>> /\ res = <<>>
    /\ entry \in {"cli", "web_ai", "web"}
    /\ pc = "start"
    /\ request \in (CASE entry = "cli" -> CliRequests
                      [] entry = "web_ai" -> AiFormRequests
                      [] OTHER -> PlainFormRequests)
    /\ document_text \in PipelineTexts
    /\ doc_analysis = Unset
    /\ code_converted = Unset
    /\ enhanced_content = Unset
    /\ doc_metadata = Unset
    /\ suggestions = Unset
    /\ latex_document = Unset
    /\ files = {}
    /\ calls = <<>>
    /\ outcome = Unset
    /\ NoBuild
    /\ NoConvert

\* a guard that does not strip
NoContentUnstripped(text) == text = <<>>

\* `if not document_text.strip():`
NoContent(text) == Strip(text) = <<>>

Reported(status, stage, exc) == [status |-> status, stage |-> stage, exc |-> exc]

\* the entry point returns
Return(status, stage, exc) ==
    /\ pc' = "done"
    /\ outcome' = Reported(status, stage, exc)

\* an exception leaves the pipeline: main prints it and returns 1,
\* process_with_ai returns {'success': False, 'error': str(e)}
Raise(stage, exc) == Return("error", stage, exc)

\* a request sent to the external service and what came of it; analysis is
\* the analysis object in the caller's hands when the method that sends the
\* request is called, from which the method writes its prompt
Call(purpose, answer) == [purpose |-> purpose, answer |-> answer, analysis |-> doc_analysis]

\* a call that is issued again when it failed
CreateWithRetry(log, purpose, answer) ==
    IF answer.ok THEN Append(log, Call(purpose, answer))
    ELSE Append(Append(log, Call(purpose, answer)), Call(purpose, answer))

\* self.client.chat.completions.create(...): the request goes out once and
\* its outcome is the answer, inside the try of the method that makes it
Create(log, purpose, answer) == Append(log, Call(purpose, answer))

\* ai_convert.py main and the head of ai_enhanced_conversion
CliMain ==
    /\ entry = "cli" /\ pc = "start"
    /\ IF ~request.api_key THEN Return("no_api_key", "main", "none")
       ELSE IF NoContent(document_text) THEN Return("no_content", "read", "ValueError")
       ELSE pc' = "analyze" /\ UNCHANGED outcome
    /\ UNCHANGED <<harness_vars, build_vars, convert,
                   entry, request, document_text, doc_analysis, code_converted,
                   enhanced_content, doc_metadata, suggestions, latex_document, files, calls>>

\* app_ai.py upload_file up to the choice of the processing function, and
\* the API key check of process_with_ai
AiUploadFile ==
    /\ entry = "web_ai" /\ pc = "start"
    /\ IF NoContent(document_text) THEN Return("no_content", "read", "none")
       ELSE IF ~request.use_ai THEN pc' = "fallback" /\ UNCHANGED outcome
       ELSE IF ~request.api_key THEN Return("no_api_key", "process_with_ai", "none")
       ELSE pc' = "analyze" /\ UNCHANGED outcome
    /\ UNCHANGED <<harness_vars, build_vars, convert,
                   entry, request, document_text, doc_analysis, code_converted,
                   enhanced_content, doc_metadata, suggestions, latex_document, files, calls>>

\* user_title = args.title; custom_title = request.form.get('title', '').strip()
custom_title ==
    IF entry = "cli" THEN request.title ELSE VStr(Strip(request.title.s))

custom_author ==
    IF entry = "cli" THEN request.author ELSE VStr(Strip(request.author.s))

\* the overrides the entry point hands to the pipeline
UserOverrides == [title |-> custom_title, author |-> custom_author]

\* what follows the rendering: the exception leaves, or the document is
\* written to main.tex
Rendered(rendered, stage, next) ==
    IF rendered.exc # "none"
    THEN Raise(stage, rendered.exc) /\ UNCHANGED <<latex_document, files>>
    ELSE /\ latex_document' = rendered.value
         /\ files' = files \cup {"main.tex"}
         /\ IF next = "done" THEN Return("completed", stage, "none")
            ELSE pc' = next /\ UNCHANGED outcome

\* app_ai.py process_without_ai
ProcessWithoutAi ==
    /\ pc = "fallback"
    /\ Rendered(fallback_conversion(document_text,
                                     IF Truthy(custom_title) THEN custom_title.s
                                     ELSE S_Document,
                                     IF Truthy(custom_author) THEN custom_author.s
                                     ELSE S_Author),
                 "fallback", "done")
    /\ UNCHANGED <<harness_vars, build_vars, convert,
                   entry, request, document_text, doc_analysis, code_converted,
                   enhanced_content, doc_metadata, suggestions, calls>>

\* app.py upload_file and process_document
PlainUploadFile ==
    /\ entry = "web" /\ pc = "start"
    /\ IF NoContent(document_text)
       THEN Return("no_content", "read", "none") /\ UNCHANGED <<latex_document, files>>
       ELSE /\ latex_document' = generate_latex_document(text_to_latex(document_text),
                                                         request.title.s, request.author.s)
            /\ files' = files \cup {"main.tex"}
            /\ Return("completed", "process_document", "none")
    /\ UNCHANGED <<harness_vars, build_vars, convert,
                   entry, request, document_text, doc_analysis, code_converted,
                   enhanced_content, doc_metadata, suggestions, calls>>

\* analysis = ai_processor.analyze_document(document_text)
Analyze ==
    /\ pc = "analyze"
    /\ \E answer \in PipelineClassifications :
          /\ calls' = Create(calls, "classification", answer)
          /\ doc_analysis' = analyze_document(answer)
    /\ pc' = "enhance"
    /\ UNCHANGED <<harness_vars, build_vars, convert,
                   entry, request, document_text, code_converted,
                   enhanced_content, doc_metadata, suggestions, latex_document, files, outcome>>

\* what follows the hybrid conversion: the exception leaves, or its result
\* is kept and the call it made is on record
Converted(hybrid, answer) ==
    IF hybrid.exc # "none"
    THEN /\ Raise("enhance", hybrid.exc)
         /\ UNCHANGED <<code_converted, enhanced_content, calls>>
    ELSE /\ code_converted' = hybrid.code_converted
         /\ enhanced_content' = hybrid.value
         /\ calls' = IF hybrid.called THEN Create(calls, "enhancement", answer)
                     ELSE calls
         /\ pc' = "metadata"
         /\ UNCHANGED outcome

\* an enhancement that is given the analysis with the overrides applied
EnhanceOverridden ==
    /\ pc = "enhance"
    /\ \E answer \in PipelineEnhancements :
          Converted(convert_with_hybrid_approach(document_text,
                                                 Override(doc_analysis, UserOverrides), answer),
                    answer)
    /\ UNCHANGED <<harness_vars, build_vars, convert,
                   entry, request, document_text, doc_analysis, doc_metadata,
                   suggestions, latex_document, files>>

\* enhanced_content = ai_processor.enhance_content_structure(document_text, analysis)
EnhanceContentStructure ==
    /\ pc = "enhance"
    /\ \E answer \in PipelineEnhancements :
          Converted(convert_with_hybrid_approach(document_text, doc_analysis, answer), answer)
    /\ UNCHANGED <<harness_vars, build_vars, convert,
                   entry, request, document_text, doc_analysis, doc_metadata,
                   suggestions, latex_document, files>>

\* what follows generate_metadata: the exception leaves, or the overrides
\* are applied
Generated(generated) ==
    IF generated.exc # "none"
    THEN Raise("metadata", generated.exc) /\ UNCHANGED <<doc_metadata, doc_analysis>>
    ELSE /\ doc_metadata' = Override(generated.value, UserOverrides)
         /\ doc_analysis' = Override(doc_analysis, UserOverrides)
         /\ pc' = IF entry = "cli" THEN "suggest" ELSE "render"
         /\ UNCHANGED outcome

\* metadata = ai_processor.generate_metadata(analysis), then the overrides
GenerateMetadata ==
    /\ pc = "metadata"
    /\ Generated(generate_metadata(doc_analysis))
    /\ UNCHANGED <<harness_vars, build_vars, convert,
                   entry, request, document_text, code_converted,
                   enhanced_content, suggestions, latex_document, files, calls>>

\* ai_processor.suggest_improvements(enhanced_content, analysis)
SuggestImprovements ==
    /\ pc = "suggest"
    /\ \E answer \in PipelineSuggestions :
          /\ calls' = Create(calls, "suggestions", answer)
          /\ suggestions' = suggest_improvements(enhanced_content, doc_analysis, answer)
    /\ pc' = IF entry = "cli" THEN "render" ELSE "write_reports"
    /\ UNCHANGED <<harness_vars, build_vars, convert,
                   entry, request, document_text, doc_analysis, code_converted,
                   enhanced_content, doc_metadata, latex_document, files, outcome>>

\* the template id: the form's choice unless it is 'auto' (the command line
\* has no choice)
TemplateType ==
    IF entry = "web_ai" /\ request.template # VStr(S_auto) THEN request.template
    ELSE doc_analysis.suggested_template

\* latex_document = get_template_by_type(...), and main.tex is written
Render ==
    /\ pc = "render"
    /\ Rendered(get_template_by_type(TemplateType, doc_metadata, enhanced_content),
                 "render", IF entry = "cli" THEN "write_reports" ELSE "suggest")
    /\ UNCHANGED <<harness_vars, build_vars, convert,
                   entry, request, document_text, doc_analysis, code_converted,
                   enhanced_content, doc_metadata, suggestions, calls>>

\* the analysis report and the enhanced content are written
WriteReports ==
    /\ pc = "write_reports"
    /\ files' = files \cup {IF entry = "cli" THEN "ai_analysis.yaml" ELSE "ai_analysis.json",
                            "enhanced_content.txt"}
    /\ Return("completed", "write_reports", "none")
    /\ UNCHANGED <<harness_vars, build_vars, convert,
                   entry, request, document_text, doc_analysis, code_converted,
                   enhanced_content, doc_metadata, suggestions, latex_document, calls>>

Next ==
    \/ CliMain
    \/ AiUploadFile
    \/ ProcessWithoutAi
    \/ PlainUploadFile
    \/ Analyze
    \/ EnhanceContentStructure
    \/ GenerateMetadata
    \/ SuggestImprovements
    \/ Render
    \/ WriteReports

Spec == Init /\ [][Next]_vars

---------------------------------------------------------------------------
(* app_ai.py build_pdf_document, called by the requests the server handles *)
(* at the same time, each in a thread of the one process. A step is one    *)
(* system call of one call.                                                *)

NumBuilds == 2

BuildIds == 1..NumBuilds

ProjectNames == {"project_1", "project_2"}

\* OUTPUT_FOLDER = 'output'; os.path.join(OUTPUT_FOLDER, project_name): the
\* callers pass a path relative to the application directory
ProjectDir(name) == <<"output", name>>

\* the directories there are; a project directory holds its main.tex
Directories ==
    {AppDir, AppDir \o <<"output">>} \cup {AppDir \o ProjectDir(n) : n \in ProjectNames}

HoldsMainTex(dir) == \E n \in ProjectNames : dir = AppDir \o ProjectDir(n)

\* a relative path names what it names from the working directory
Resolve(dir, path) == dir \o path

\* a request that has not come in: route is the view function that will
\* handle it, response what the view function returns
NotCalled ==
    [pc |-> "idle", route |-> "none", output_dir |-> <<>>, original_cwd |-> <<>>,
     passes |-> <<>>, exc |-> "none", result |-> Unset, response |-> Unset]

BuildInit ==
    /\ op = "none" /\ arg = <<>> /\ res = <<>>
    /\ Idle
    /\ cwd = AppDir
    /\ pdfs = {}
    /\ builds = [i \in BuildIds |-> NotCalled]
    /\ NoConvert

BuildSucceeded(pdf_path) ==
    [success |-> TRUE, error |-> "", pdf_path |-> pdf_path, pdf_size |-> "st_size",
     raised |-> "none"]

BuildFailed(error) ==
    [success |-> FALSE, error |-> error, pdf_path |-> <<>>, pdf_size |-> "", raised |-> "none"]

\* an exception that leaves build_pdf_document
Propagated(exc) ==
    [success |-> FALSE, error |-> "", pdf_path |-> <<>>, pdf_size |-> "", raised |-> exc]

\* handlers without the last one, except Exception
CaughtByName(exc) ==
    CASE exc = "TimeoutExpired" -> BuildFailed("PDF compilation timed out (60 seconds)")
      [] exc = "FileNotFoundError" ->
            BuildFailed("pdflatex not found. Please install LaTeX (MiKTeX/TeX Live)")
      [] OTHER -> Propagated(exc)

\* except subprocess.TimeoutExpired / except FileNotFoundError / except Exception
Caught(exc) ==
    CASE exc = "TimeoutExpired" -> BuildFailed("PDF compilation timed out (60 seconds)")
      [] exc = "FileNotFoundError" ->
            BuildFailed("pdflatex not found. Please install LaTeX (MiKTeX/TeX Live)")
      [] OTHER -> BuildFailed(exc)

\* the exit codes of pdflatex -halt-on-error main.tex run in a directory: 0
\* only where main.tex is
ExitCodes(dir) == IF HoldsMainTex(dir) THEN {0, 1} ELSE {1}

\* what subprocess.run raises: the time limit, no pdflatex on the PATH, the
\* binary may not be executed
RunRaises == {"TimeoutExpired", "FileNotFoundError", "PermissionError"}

\* upload_file calls build_pdf_document(result['latex_path']) on the main.tex
\* it has written; output_dir = latex_path.parent
Begin(i) ==
    /\ builds[i].pc = "idle"
    /\ \E n \in ProjectNames :
          builds' = [builds EXCEPT ![i].pc = "getcwd", ![i].route = "upload_file",
                                   ![i].output_dir = ProjectDir(n)]
    /\ UNCHANGED <<harness_vars, pipeline_vars, convert, cwd, pdfs>>

\* the project names a client may put in the URL: the projects there are and
\* one there is not
RequestedNames == ProjectNames \cup {"project_9"}

\* jsonify(body): the status of the response is 200
Json(body) == [status |-> 200, body |-> body]

\* a missing file answered as Not Found
LatexNotFound404 ==
    [status |-> 404, body |-> [success |-> FALSE, error |-> "LaTeX file not found"]]

\* return jsonify({'success': False, 'error': 'LaTeX file not found'})
LatexNotFound == Json([success |-> FALSE, error |-> "LaTeX file not found"])

\* os.path.exists(latex_path), the path being relative
MainTexExists(dir, name) ==
    Resolve(dir, ProjectDir(name)) \in Directories /\ HoldsMainTex(Resolve(dir, ProjectDir(name)))

\* GET /compile_pdf/<project_name> up to the call of build_pdf_document
CompilePdf(i) ==
    /\ builds[i].pc = "idle"
    /\ \E n \in RequestedNames :
          IF MainTexExists(cwd, n)
          THEN builds' = [builds EXCEPT ![i].pc = "getcwd", ![i].route = "compile_pdf",
                                        ![i].output_dir = ProjectDir(n)]
          ELSE builds' = [builds EXCEPT ![i].pc = "answered", ![i].route = "compile_pdf",
                                        ![i].response = LatexNotFound]
    /\ UNCHANGED <<harness_vars, pipeline_vars, convert, cwd, pdfs>>

\* what compile_pdf returns after build_pdf_document: the two jsonify calls
\* of the try block, and the one of except Exception
CompilePdfResponse(pdf_result) ==
    IF pdf_result.raised # "none"
    THEN Json([success |-> FALSE, error |-> pdf_result.raised])
    ELSE IF pdf_result.success
    THEN Json([success |-> TRUE, pdf_path |-> pdf_result.pdf_path,
               pdf_size |-> pdf_result.pdf_size, download_url |-> "/download/<project_name>/pdf"])
    ELSE Json([success |-> FALSE, error |-> pdf_result.error,
               compilation_output |-> "compilation_output"])

\* compile_pdf returns its response
Respond(i) ==
    /\ builds[i].pc = "done"
    /\ builds[i].route = "compile_pdf"
    /\ builds' = [builds EXCEPT ![i].pc = "answered",
                                ![i].response = CompilePdfResponse(builds[i].result)]
    /\ UNCHANGED <<harness_vars, pipeline_vars, convert, cwd, pdfs>>

\* original_cwd = os.getcwd()
GetCwd(i) ==
    /\ builds[i].pc = "getcwd"
    /\ builds' = [builds EXCEPT ![i].pc = "chdir", ![i].original_cwd = cwd]
    /\ UNCHANGED <<harness_vars, pipeline_vars, convert, cwd, pdfs>>

\* os.chdir(str(output_dir)), outside the inner try: where the path names no
\* directory FileNotFoundError goes to the handlers at once
Chdir(i) ==
    /\ builds[i].pc = "chdir"
    /\ IF Resolve(cwd, builds[i].output_dir) \in Directories
       THEN /\ cwd' = Resolve(cwd, builds[i].output_dir)
            /\ builds' = [builds EXCEPT ![i].pc = "pass1"]
       ELSE /\ builds' = [builds EXCEPT ![i].pc = "done",
                                        ![i].exc = "FileNotFoundError",
                                        ![i].result = Caught("FileNotFoundError")]
            /\ UNCHANGED cwd
    /\ UNCHANGED <<harness_vars, pipeline_vars, convert, pdfs>>

\* subprocess.run(['pdflatex', ..., latex_filename], timeout=60): the child
\* runs in the working directory the process has at that moment
RunPdflatex(i, next) ==
    /\ \/ \E code \in ExitCodes(cwd) :
            /\ builds' = [builds EXCEPT
                            ![i].pc = next,
                            ![i].passes = Append(@, [dir |-> cwd, returncode |-> code])]
            /\ pdfs' = IF code = 0 THEN pdfs \cup {cwd} ELSE pdfs
       \/ \E exc \in RunRaises :
            /\ builds' = [builds EXCEPT
                            ![i].pc = "restore",
                            ![i].exc = exc,
                            ![i].passes = IF exc = "TimeoutExpired"
                                          THEN Append(@, [dir |-> cwd, returncode |-> -9])
                                          ELSE @]
            /\ UNCHANGED pdfs
    /\ UNCHANGED <<harness_vars, pipeline_vars, convert, cwd>>

FirstPass(i) == builds[i].pc = "pass1" /\ RunPdflatex(i, "pass2")

SecondPass(i) == builds[i].pc = "pass2" /\ RunPdflatex(i, "check")

\* pdf_path = output_dir / pdf_filename; if pdf_path.exists(): the value to
\* return is made, the finally clause is still to run
CheckPdf(i) ==
    /\ builds[i].pc = "check"
    /\ builds' = [builds EXCEPT
                    ![i].pc = "restore",
                    ![i].result =
                        IF Resolve(cwd, builds[i].output_dir) \in pdfs
                        THEN BuildSucceeded(builds[i].output_dir \o <<"main.pdf">>)
                        ELSE BuildFailed("PDF file was not created - likely LaTeX compilation errors")]
    /\ UNCHANGED <<harness_vars, pipeline_vars, convert, cwd, pdfs>>

\* finally: os.chdir(original_cwd); then the value is returned, or the
\* exception reaches its handler
RestoreCwd(i) ==
    /\ builds[i].pc = "restore"
    /\ cwd' = builds[i].original_cwd
    /\ builds' = [builds EXCEPT
                    ![i].pc = "done",
                    ![i].result = IF builds[i].exc # "none" THEN Caught(builds[i].exc) ELSE @]
    /\ UNCHANGED <<harness_vars, pipeline_vars, convert, pdfs>>

BuildNext ==
    \/ \E i \in BuildIds : Begin(i)
    \/ \E i \in BuildIds : CompilePdf(i)
    \/ \E i \in BuildIds : Respond(i)
    \/ \E i \in BuildIds : GetCwd(i)
    \/ \E i \in BuildIds : Chdir(i)
    \/ \E i \in BuildIds : FirstPass(i)
    \/ \E i \in BuildIds : SecondPass(i)
    \/ \E i \in BuildIds : CheckPdf(i)
    \/ \E i \in BuildIds : RestoreCwd(i)

SpecBuild == BuildInit /\ [][BuildNext]_vars

---------------------------------------------------------------------------
(* src/convert.py: the PDF build of the command-line converter, a step per *)
(* statement that runs a command or decides where the loops go.            *)

\* what subprocess.run(cmd, ...) does: the command exits with a return code,
\* or the call raises
Exited(code) == [raised |-> "none", returncode |-> code]

Threw(exc) == [raised |-> exc, returncode |-> -1]

\* the command is not installed (FileNotFoundError), or it may not be run
CommandOutcomes == {Exited(0), Exited(1), Threw("FileNotFoundError"), Threw("PermissionError")}

S_pdflatex_direct == "pdflatex (direct)"

S_latexmk_pdflatex == "latexmk with pdflatex"

S_latexmk_default == "latexmk (default)"

\* the methods with latexmk moved before pdflatex
compile_methods_latexmk_first ==
    <<[name |-> S_latexmk_pdflatex,
       commands |-> <<<<"latexmk", "-pdf", "-pdflatex=pdflatex", "-cd", "main.tex">>>>],
      [name |-> S_pdflatex_direct,
       commands |-> <<<<"pdflatex", "-interaction=nonstopmode", "main.tex">>,
                      <<"pdflatex", "-interaction=nonstopmode", "main.tex">>>>],
      [name |-> S_latexmk_default,
       commands |-> <<<<"latexmk", "-pdf", "-cd", "main.tex">>>>]>>

compile_methods ==
    <<[name |-> S_pdflatex_direct,
       commands |-> <<<<"pdflatex", "-interaction=nonstopmode", "main.tex">>,
                      <<"pdflatex", "-interaction=nonstopmode", "main.tex">>>>],
      [name |-> S_latexmk_pdflatex,
       commands |-> <<<<"latexmk", "-pdf", "-pdflatex=pdflatex", "-cd", "main.tex">>>>],
      [name |-> S_latexmk_default,
       commands |-> <<<<"latexmk", "-pdf", "-cd", "main.tex">>>>]>>

\* main has written main.tex; args.build is given or not, and a main.pdf may
\* be there from an earlier run
ConvertInit ==
    /\ op = "none" /\ arg = <<>> /\ res = <<>>
    /\ Idle
    /\ NoBuild
    /\ convert \in {[pc |-> "main", build |-> b, pdf_exists |-> e, pdf_built |-> FALSE,
                     method |-> 0, command |-> 0, success |-> FALSE, tried |-> <<>>,
                     ran |-> <<>>, verdicts |-> <<>>, notice |-> FALSE] : b, e \in BOOLEAN}

\* if args.build: pdf_built = False, and the list of methods
BuildRequested ==
    /\ convert # Unset /\ convert.pc = "main"
    /\ convert' = IF convert.build
                  THEN [convert EXCEPT !.pc = "for_method", !.pdf_built = FALSE, !.method = 1]
                  ELSE [convert EXCEPT !.pc = "done"]
    /\ UNCHANGED <<harness_vars, pipeline_vars, build_vars>>

\* for method in compile_methods: if pdf_built: break; print Trying ...; try:
\* success = True
ForMethod ==
    /\ convert # Unset /\ convert.pc = "for_method"
    /\ convert' = IF convert.method > Len(compile_methods) \/ convert.pdf_built
                  THEN [convert EXCEPT !.pc = "after_loop"]
                  ELSE [convert EXCEPT !.pc = "for_command", !.success = TRUE, !.command = 1,
                                       !.tried = Append(@, compile_methods[convert.method].name)]
    /\ UNCHANGED <<harness_vars, pipeline_vars, build_vars>>

\* the method ended with this verdict and the loop goes to the next method
NextMethod(verdict) ==
    [convert EXCEPT !.pc = "for_method", !.method = @ + 1,
                    !.verdicts = Append(@, [name |-> compile_methods[convert.method].name,
                                            verdict |-> verdict])]

\* for cmd in method['commands']: result = subprocess.run(cmd, ...); a return
\* code other than 0 leaves the loop with success = False, an exception goes
\* to the handlers, which print and let the outer loop go on
ForCommand ==
    /\ convert # Unset /\ convert.pc = "for_command"
    /\ IF convert.command > Len(compile_methods[convert.method].commands)
       THEN convert' = [convert EXCEPT !.pc = "method_ran"]
       ELSE \E result \in CommandOutcomes, made \in BOOLEAN :
              LET run == [NextMethod(IF result.raised = "FileNotFoundError"
                                     THEN "not_found" ELSE "error")
                            EXCEPT !.ran = Append(@,
                                [method |-> compile_methods[convert.method].name,
                                 command |-> compile_methods[convert.method].commands[convert.command],
                                 outcome |-> result])]
              IN  convert' =
                    IF result.raised # "none" THEN run
                    ELSE IF result.returncode # 0
                    THEN [convert EXCEPT !.pc = "method_ran", !.success = FALSE,
                                         !.ran = run.ran,
                                         !.pdf_exists = @ \/ made]
                    ELSE [convert EXCEPT !.command = @ + 1, !.ran = run.ran,
                                         !.pdf_exists = @ \/ made]
    /\ UNCHANGED <<harness_vars, pipeline_vars, build_vars>>

\* if success: if pdf_path.exists(): pdf_built = True; break; else: print
\* no PDF found; else: print failed
MethodRan ==
    /\ convert # Unset /\ convert.pc = "method_ran"
    /\ convert' = IF convert.success /\ convert.pdf_exists
                  THEN [convert EXCEPT !.pc = "after_loop", !.pdf_built = TRUE,
                                       !.verdicts = Append(@,
                                            [name |-> compile_methods[convert.method].name,
                                             verdict |-> "built"])]
                  ELSE IF convert.success THEN NextMethod("no_pdf")
                  ELSE NextMethod("failed")
    /\ UNCHANGED <<harness_vars, pipeline_vars, build_vars>>

\* if not pdf_built: print the notice and the possible solutions
AfterLoop ==
    /\ convert # Unset /\ convert.pc = "after_loop"
    /\ convert' = [convert EXCEPT !.pc = "done", !.notice = ~convert.pdf_built]
    /\ UNCHANGED <<harness_vars, pipeline_vars, build_vars>>

ConvertNext ==
    \/ BuildRequested
    \/ ForMethod
    \/ ForCommand
    \/ MethodRan
    \/ AfterLoop

SpecConvert == ConvertInit /\ [][ConvertNext]_vars

---------------------------------------------------------------------------
(* Properties of the entry points                                          *)

OnRecord(purpose) == {k \in 1..Len(calls) : calls[k].purpose = purpose}

\* the request left the hybrid conversion with a result
ConversionDone ==
    \/ pc \in {"metadata", "suggest", "render", "write_reports"}
    \/ pc = "done" /\ outcome.stage \in {"metadata", "render", "write_reports"}

\* C1: once the text is not blank and the pipeline has started, it runs to
\* completion whatever the service answers: no stage raises, and a rendered
\* document is written.
C1_PipelineAlwaysRenders ==
    (entry \in {"cli", "web_ai"} /\ pc = "done" /\ OnRecord("classification") # {}) =>
        outcome.status = "completed" /\ "main.tex" \in files

\* C7: when the enhancement call is made, the content is the service's text
\* verbatim if the call succeeded and the rule engine's text unchanged if it
\* failed; the enhancer does not raise, and the content is a string.
C7_EnhancerFailSoft ==
    \A k \in OnRecord("enhancement") :
        /\ ConversionDone
        /\ enhanced_content = IF calls[k].answer.ok THEN calls[k].answer.content
                              ELSE code_converted
        /\ DOMAIN enhanced_content = 1..Len(enhanced_content)

C7_Witness ==
    /\ pc = "render"
    /\ \E k \in OnRecord("enhancement") : ~calls[k].answer.ok
    /\ enhanced_content = code_converted
    /\ code_converted # <<>>

\* C8: the rule engine runs first, and the enhancement call is made exactly
\* when the policy finds the rule engine's output inadequate, once; when the
\* output is adequate the content is the rule engine's output. When the rule
\* engine raises, no call is made.
C8_EnhancementIffInadequate ==
    /\ ConversionDone =>
          /\ OnRecord("enhancement") # {}
                <=> ~_is_conversion_adequate(code_converted, doc_analysis)
          /\ Cardinality(OnRecord("enhancement")) <= 1
          /\ OnRecord("enhancement") = {} => enhanced_content = code_converted
    /\ pc = "metadata" =>
          code_converted = _code_based_conversion(document_text, doc_analysis).value
    /\ ~ConversionDone => OnRecord("enhancement") = {}

C8_Witness ==
    /\ pc = "metadata"
    /\ OnRecord("enhancement") = {}
    /\ enhanced_content = code_converted
    /\ doc_analysis.document_type = "REPORT"

\* C10: a text that is empty or all white space is refused before the
\* pipeline starts, at every entry point: the request ends with the
\* no-content error (the command line without an API key ends before it reads
\* the text), no call is made, nothing is rendered, no file is written.
C10_BlankTextRefused ==
    (\A i \in 1..Len(document_text) : document_text[i] \in WhiteSpace) =>
        /\ pc \in {"start", "done"}
        /\ calls = <<>>
        /\ files = {}
        /\ latex_document = Unset
        /\ pc = "done" =>
              \/ outcome.status = "no_content"
              \/ entry = "cli" /\ ~request.api_key /\ outcome.status = "no_api_key"

C10_Witness ==
    /\ document_text = S_Blank
    /\ entry = "web_ai"
    /\ pc = "done"
    /\ outcome.status = "no_content"
    /\ files = {}

\* the analysis the classification call gave, before any override
Classified == analyze_document(calls[1].answer)

\* an override that is present and not blank
TakesEffect(override) == override.t = "str" /\ Strip(override.s) # <<>>

\* the override as given or trimmed
AsGiven(override) == {override, VStr(Strip(override.s))}

OverrideSettled(key, override, classified, generated) ==
    IF TakesEffect(override)
    THEN doc_metadata[key] \in AsGiven(override) /\ doc_analysis[key] = doc_metadata[key]
    ELSE doc_metadata[key] = generated[key] /\ doc_analysis[key] = classified[key]

OthersKept(generated) ==
    \A key \in DOMAIN generated \ {"title", "author"} : doc_metadata[key] = generated[key]

\* C11: once the metadata is assembled, a title or author override that is
\* present and not blank after trimming is the value of both the metadata and
\* the analysis; an absent, empty or all-white-space override leaves both at
\* the classifier's values; title and author are settled independently and no
\* other metadata key changes.
C11_OverridesWhenNotBlank ==
    doc_metadata # Unset =>
        /\ OverrideSettled("title", request.title, Classified,
                           generate_metadata(Classified).value)
        /\ OverrideSettled("author", request.author, Classified,
                           generate_metadata(Classified).value)
        /\ OthersKept(generate_metadata(Classified).value)

\* C15: in the document get_template_by_type renders, whichever template is
\* reached, each metadata value placed (title, author, department,
\* classification, summary, keywords) has gone through escape_latex and the
\* content through clean_content_for_latex, so no special character of a
\* metadata value is placed as it came.
C15_PlacedValuesEscaped ==
    (op = "get_template_by_type" /\ res.exc = "none") =>
        /\ \A f \in PlacedFromMetadata(res.value.placed, arg.metadata) :
              res.value.placed[f] = escape_latex(arg.metadata[f].s)
        /\ res.value.placed.content = clean_content_for_latex(arg.content)

\* C17: no call to the service is issued again: within one request the
\* classification call is made once (first, whenever the pipeline runs), the
\* enhancement call at most once, the suggestions call at most once, three
\* calls at most; a call that failed is replaced by its default: the default
\* analysis, the rule engine's text, the default suggestion.
C17_NoCallRetried ==
    /\ Len(calls) <= 3
    /\ \A purpose \in {"classification", "enhancement", "suggestions"} :
          Cardinality(OnRecord(purpose)) <= 1
    /\ doc_analysis # Unset => OnRecord("classification") = {1}
    /\ (pc = "enhance" /\ ~calls[1].answer.ok) => doc_analysis = DefaultAnalysis
    /\ \A k \in OnRecord("enhancement") :
          ~calls[k].answer.ok => enhanced_content = code_converted
    /\ \A k \in OnRecord("suggestions") :
          ~calls[k].answer.ok => suggestions = <<S_DefaultSuggestion>>

\* a request whose three calls all failed, completed
C17_Witness ==
    /\ pc = "done"
    /\ outcome.status = "completed"
    /\ Len(calls) = 3
    /\ \A k \in 1..3 : ~calls[k].answer.ok
    /\ suggestions = <<S_DefaultSuggestion>>

S_SummaryBanner ==
    <<"E", "X", "E", "C", "U", "T", "I", "V", "E", " ", "S", "U", "M", "M", "A", "R", "Y">>
S_TitleSection ==
    <<"\\", "s", "e", "c", "t", "i", "o", "n", "{", "A", "N", "N", "U", "A", "L", " ", "C",
      "O", "M", "P", "L", "I", "A", "N", "C", "E", " ", "R", "E", "P", "O", "R", "T">>
S_SubjectSubsection ==
    <<"\\", "s", "u", "b", "s", "e", "c", "t", "i", "o", "n", "{", "S", "u", "b", "j", "e",
      "c", "t", ":", " ", "T", "a", "x", " ", "F", "i", "l", "i", "n", "g">>

\* the request of the example has completed: the classifier called the
\* document a report with confidence 0.9
ExampleConverted ==
    /\ document_text = S_Example
    /\ pc = "done"
    /\ outcome.status = "completed"
    /\ calls # <<>>
    /\ Classified.document_type = "REPORT"
    /\ Classified.confidence_score = VNum(90)

\* C19: for the text 'ANNUAL COMPLIANCE REPORT / Subject: Tax Filing /
\* Details follow.' classified as a report with confidence 0.9, no
\* enhancement is called for, and the content of the rendered document holds
\* the 'EXECUTIVE SUMMARY' banner, a section heading made of the title line
\* alone and a subsection heading made of the 'Subject: Tax Filing' line.
C19_ReportExample ==
    ExampleConverted =>
        /\ OnRecord("enhancement") = {}
        /\ Contains(latex_document.placed.content, S_SummaryBanner)
        /\ Contains(latex_document.placed.content, S_TitleSection)
        /\ Contains(latex_document.placed.content, S_SubjectSubsection)

---------------------------------------------------------------------------
(* The rule engine as a function of the text and the analysis.             *)

RuleEngineTexts == {<<>>, S_Note, S_Memo, S_Example, S_Padded}

\* the analyses the classifier returns for every type of document, with
\* formatting requirements that are a mapping, an empty mapping, a list, null
RuleEngineAnalyses ==
    AnalysesOf({[FullData EXCEPT !.document_type = VStr(DocumentTypeValue[m]),
                                 !.formatting_requirements = v] :
                    m \in DocumentType,
                    v \in FieldOptions.formatting_requirements
                            \cup {FullData.formatting_requirements}})

RuleEngineInit ==
    HarnessInit({[text |-> tx, analysis |-> a] :
                    tx \in RuleEngineTexts, a \in RuleEngineAnalyses})

CodeBasedConversion ==
    Apply("_code_based_conversion", _code_based_conversion(arg.text, arg.analysis))

RuleEngineNext == CodeBasedConversion

SpecRuleEngine == RuleEngineInit /\ [][RuleEngineNext]_vars

\* the types for which the documentation registers a scaffold
ScaffoldTypes == {"OFFICE_MEMORANDUM", "CIRCULAR", "NOTIFICATION", "REPORT"}

\* C16: _code_based_conversion never raises, whatever the text and the type;
\* for a type outside office_memorandum, circular, notification and report
\* (unknown among them) the scaffold step is the identity, the result being
\* the input changed by the normalization rules alone.
C16_RuleEngineTotal ==
    op = "_code_based_conversion" =>
        /\ res.exc = "none"
        /\ arg.analysis.document_type \notin ScaffoldTypes =>
              res = FormatStructured(Ok(arg.text))

---------------------------------------------------------------------------
(* Properties of build_pdf_document                                        *)

AllReturned == \A i \in DOMAIN builds : builds[i].pc \in {"idle", "done", "answered"}

\* C18: calls of build_pdf_document made at the same time share no state:
\* when all of them have returned, whatever the interleaving, the working
\* directory of the process is the one it was before them, and every pass of
\* the compiler a call started ran in the project directory of that call.
C18_BuildsShareNoState ==
    /\ AllReturned => cwd = AppDir
    /\ \A i \in DOMAIN builds :
          \A k \in 1..Len(builds[i].passes) :
              builds[i].passes[k].dir = Resolve(AppDir, builds[i].output_dir)

\* the error message of the value returned after an exception
ErrorOf(exc) ==
    CASE exc = "TimeoutExpired" -> "PDF compilation timed out (60 seconds)"
      [] exc = "FileNotFoundError" ->
            "pdflatex not found. Please install LaTeX (MiKTeX/TeX Live)"
      [] OTHER -> exc

Reports(build) ==
    /\ build.result.raised = "none"
    /\ build.result.success \in BOOLEAN
    /\ ~build.result.success => build.result.error # ""
    /\ build.exc # "none" =>
          ~build.result.success /\ build.result.error = ErrorOf(build.exc)
    /\ build.result.success =>
          /\ build.exc = "none"
          /\ Len(build.passes) = 2
          /\ build.result.pdf_path = build.output_dir \o <<"main.pdf">>
          /\ build.result.pdf_size = "st_size"

\* C20: build_pdf_document runs the compiler twice, the second pass after
\* the first has ended, and returns every failure as a value: a time limit
\* hit in either pass, a compiler that is not there and any other error give
\* success false with an error message, and nothing is raised; success true
\* comes with the path and the size of the PDF.
C20_BuildFailuresAreValues ==
    \A i \in DOMAIN builds :
        /\ Len(builds[i].passes) <= 2
        /\ builds[i].pc = "pass2" =>
              Len(builds[i].passes) = 1 /\ builds[i].passes[1].returncode >= 0
        /\ builds[i].pc = "check" =>
              Len(builds[i].passes) = 2 /\ builds[i].passes[2].returncode >= 0
        /\ (builds[i].pc \in {"done", "answered"} /\ builds[i].result # Unset) =>
              Reports(builds[i])

\* the second pass hit the time limit, and the call returned the failure
C20_Witness ==
    \E i \in DOMAIN builds :
        /\ builds[i].pc = "done"
        /\ builds[i].exc = "TimeoutExpired"
        /\ Len(builds[i].passes) = 2
        /\ builds[i].passes[1].returncode = 0
        /\ ~builds[i].result.success
        /\ builds[i].result.error = "PDF compilation timed out (60 seconds)"

---------------------------------------------------------------------------
(* The normalization rules of the rule engine, each as a function of the   *)
(* text.                                                                   *)

MaxRuleTextLen == 4

RuleAlphabet == {"A", "a", "1", ".", ":", " ", "\n"}

ShortRuleTexts == UNION {[1..n -> RuleAlphabet] : n \in 0..MaxRuleTextLen}

S_Scope5 ==
    <<"S", "C", "O", "P", "E">>
S_AnnualReport ==
    <<"A", "N", "N", "U", "A", "L", " ", "R", "E", "P", "O", "R", "T">>
S_NumberedScope ==
    <<"1", ".", " ", "S", "c", "o", "p", "e", " ", "a", "n", "d", " ", "p", "u", "r", "p", "o",
      "s", "e">>
S_NumberedDetail ==
    <<"1", ".", "1", " ", "D", "e", "t", "a", "i", "l", " ", "o", "f", " ", "t", "h", "e", " ",
      "s", "c", "o", "p", "e">>
S_TwoSentences ==
    <<"D", "e", "t", "a", "i", "l", "s", " ", "f", "o", "l", "l", "o", "w", ".", " ", "M", "o",
      "r", "e", " ", "t", "e", "x", "t", "!", " ", " ", "T", "h", "e", "n", " ", "t", "h", "e",
      " ", "e", "n", "d", ".", "\n", "\n", "\n", "N", "e", "x", "t">>
S_LongLine ==
    <<" ">> \o Filler(51) \o <<"\n", " ", "1", ".">> \o Filler(51)

RuleTexts ==
    ShortRuleTexts
        \cup {S_Example, S_Padded, S_Memo, S_Scope5, S_AnnualReport, S_NumberedScope,
              S_NumberedDetail, S_TwoSentences, S_LongLine}

RulesInit == HarnessInit(RuleTexts)

StandardizeHeadings == Apply("_standardize_headings", _standardize_headings(arg))

AddStandardNumbering == Apply("_add_standard_numbering", _add_standard_numbering(arg))

ImproveParagraphs == Apply("_improve_paragraphs", _improve_paragraphs(arg))

RulesNext ==
    \/ StandardizeHeadings
    \/ AddStandardNumbering
    \/ ImproveParagraphs

SpecRules == RulesInit /\ [][RulesNext]_vars

\* a heading command opened at i is closed before the line ends
ClosedOnItsLine(text, open, i) ==
    (i + Len(open) - 1 <= Len(text) /\ SubSeq(text, i, i + Len(open) - 1) = open) =>
        \E j \in (i + Len(open))..Len(text) :
            text[j] = "}" /\ \A k \in i..j : text[k] # "\n"

\* C22: heading normalization works line by line: the result has the lines
\* of the text, each one normalized on its own, so the number of lines does
\* not change and what \section{...} or \subsection{...} encloses is the
\* text of one line, with no newline in it.
C22_HeadingsLineAnchored ==
    op = "_standardize_headings" =>
        /\ Len(SplitLines(res)) = Len(SplitLines(arg))
        /\ \A k \in 1..Len(SplitLines(arg)) :
              k <= Len(SplitLines(res))
                  /\ SplitLines(res)[k] = _standardize_headings(SplitLines(arg)[k])
        /\ \A i \in 1..Len(res) :
              ClosedOnItsLine(res, S_section, i) /\ ClosedOnItsLine(res, S_subsection, i)

OneLine(text) == \A i \in 1..Len(text) : text[i] # "\n"

LeadingDigits(line) ==
    CHOOSE n \in 0..Len(line) :
        /\ \A i \in 1..n : line[i] \in Digit
        /\ n < Len(line) => line[n + 1] \notin Digit

SkipDot(line, n) == IF n < Len(line) /\ line[n + 1] = "." THEN n + 1 ELSE n

SkipSpaces(line, n) ==
    CHOOSE m \in n..Len(line) :
        /\ \A i \in (n + 1)..m : line[i] = " "
        /\ m < Len(line) => line[m + 1] # " "

\* a number, an optional full stop, then a phrase that starts with a capital
\* and has no full stop in it
NumberedCapitalized(line) ==
    LET m == SkipSpaces(line, SkipDot(line, LeadingDigits(line)))
    IN  /\ LeadingDigits(line) >= 1
        /\ m < Len(line)
        /\ line[m + 1] \in UpperCase
        /\ \A i \in (m + 2)..Len(line) : line[i] # "."

\* a phrase numbered N.N
NNNumbered(line) ==
    /\ LeadingDigits(line) >= 1
    /\ LeadingDigits(line) < Len(line)
    /\ line[LeadingDigits(line) + 1] = "."
    /\ NumberedCapitalized(SubSeq(line, LeadingDigits(line) + 2, Len(line)))

AllCapsPhrase(line) ==
    /\ line # <<>>
    /\ line[1] \in UpperCase
    /\ \A i \in 1..Len(line) : line[i] \in UpperCase \cup {" "}

PromotedTo(command, line, result) == result = command \o line \o <<"}">>

\* C23: a line is promoted to a section heading exactly when it is a
\* numbered capitalized phrase or an all-caps phrase of more than 10
\* characters, to a subsection heading exactly when it is an N.N numbered
\* phrase, and any other line, an all-caps line of 10 characters or fewer
\* in particular, is returned unchanged.
C23_PromotionRule ==
    (op = "_standardize_headings" /\ OneLine(arg)) =>
        /\ (AllCapsPhrase(arg) /\ Len(arg) > HeadingMinLen) => PromotedTo(S_section, arg, res)
        /\ (AllCapsPhrase(arg) /\ Len(arg) <= HeadingMinLen) => res = arg
        /\ (NNNumbered(arg) /\ arg[Len(arg)] \notin {" ", ":"}) => PromotedTo(S_subsection, arg, res)
        /\ PromotedTo(S_section, arg, res) =>
              \/ NumberedCapitalized(arg) /\ ~NNNumbered(arg)
              \/ AllCapsPhrase(arg) /\ Len(arg) > HeadingMinLen
        /\ PromotedTo(S_subsection, arg, res) => NNNumbered(arg)
        /\ res # arg => PromotedTo(S_section, arg, res) \/ PromotedTo(S_subsection, arg, res)
                            \/ arg[Len(arg)] \in {" ", ":"}

\* C24 as stated: paragraph normalization is not idempotent, some text is
\* changed again by a second application to its own output.
C24_NotIdempotent ==
    op = "_improve_paragraphs" =>
        \E x \in RuleTexts :
            _improve_paragraphs(_improve_paragraphs(x)) # _improve_paragraphs(x)

\* C24: paragraph normalization is idempotent: applied to its own output it
\* returns that output unchanged, for every text.
C24_Idempotent ==
    op = "_improve_paragraphs" => _improve_paragraphs(res) = res

C24_Witness ==
    /\ op = "_improve_paragraphs"
    /\ arg = S_TwoSentences
    /\ res # arg
    /\ Contains(res, <<".", "\n", "\n", "M">>)
    /\ Contains(res, <<"!", "\n", "\n", "T">>)
    /\ _improve_paragraphs(res) = res

LongLineLen == 50

NoLongLine(text) ==
    \A k \in 1..Len(SplitLines(text)) : Len(SplitLines(text)[k]) <= LongLineLen

\* C25: the numbering pass changes nothing: the result has as many lines as
\* the text, in the same order, and a text with no line of more than 50
\* characters is returned as it was given.
C25_NumberingIsNoOp ==
    op = "_add_standard_numbering" =>
        /\ Len(SplitLines(res)) = Len(SplitLines(arg))
        /\ \A k \in 1..Len(SplitLines(arg)) :
              k <= Len(SplitLines(res)) /\ Strip(SplitLines(res)[k]) = Strip(SplitLines(arg)[k])
        /\ NoLongLine(arg) => res = arg

S_FileNoLabel ==
    <<"F", "i", "l", "e", " ", "N", "o", ".", ":">>
S_PreparedByLabel ==
    <<"P", "r", "e", "p", "a", "r", "e", "d", " ", "b", "y", ":">>

\* a line that only the scaffolds write
HoldsScaffold(content) ==
    Contains(content, S_FileNoLabel) \/ Contains(content, S_PreparedByLabel)

\* C26: whenever the rule engine returns, what it returns is not empty and
\* holds the header and footer scaffold, for every type of document and every
\* text, the empty text included.
C26_RuleEngineContentNotEmpty ==
    (op = "_code_based_conversion" /\ res.exc = "none") =>
        res.value # <<>> /\ HoldsScaffold(res.value)

\* the classification came back as the default analysis
Degraded == calls # <<>> /\ analyze_document(calls[1].answer) = DefaultAnalysis

\* C27: when the classification degraded to the default analysis, the hybrid
\* conversion always escalates: the policy finds the rule engine's output
\* inadequate whatever the text, the enhancement call is made, and the content
\* is the rule engine's output only if that call failed too.
C27_DefaultAnalysisEscalates ==
    (Degraded /\ ConversionDone) =>
        /\ ~_is_conversion_adequate(code_converted, DefaultAnalysis)
        /\ Cardinality(OnRecord("enhancement")) = 1
        /\ \A k \in OnRecord("enhancement") :
              /\ k = 2
              /\ enhanced_content = code_converted => ~calls[k].answer.ok
              /\ calls[k].answer.ok => enhanced_content = calls[k].answer.content

C27_Witness ==
    /\ pc = "done" /\ outcome.status = "completed"
    /\ Degraded
    /\ ~calls[1].answer.ok
    /\ \E k \in OnRecord("enhancement") : ~calls[k].answer.ok
    /\ enhanced_content = code_converted
    /\ enhanced_content = _code_based_conversion(document_text, DefaultAnalysis).value

S_TitleAnnualPlan ==
    <<"T", "i", "t", "l", "e", ":", " ", "A", "n", "n", "u", "a", "l", " ", "P", "l", "a", "n">>
S_RnDEscaped ==
    <<"R", "\\", "&", "D">>

\* the value an override leaves: its own when it is given, else the one found
Overridden(found, override) ==
    IF override.t = "str" /\ override.s # <<>> THEN override ELSE found

\* C28: the title and author overrides are applied after restructuring and
\* enhancement and before everything else: the rule engine's scaffold and the
\* enhancement call are made from the analysis as the classifier returned it,
\* while the metadata, the suggestion call and the analysis that is written
\* out hold the overrides.
C28_OverridesAfterEnhancement ==
    /\ pc = "enhance" => doc_analysis = Classified
    /\ (ConversionDone /\ pc \in {"metadata", "done"}) =>
          code_converted = _code_based_conversion(document_text, Classified).value
    /\ \A k \in OnRecord("enhancement") : calls[k].analysis = Classified
    /\ doc_metadata # Unset =>
          /\ doc_metadata.title = Overridden(generate_metadata(Classified).value.title,
                                             custom_title)
          /\ doc_metadata.author = Overridden(generate_metadata(Classified).value.author,
                                              custom_author)
          /\ doc_analysis.title = Overridden(Classified.title, custom_title)
          /\ doc_analysis.author = Overridden(Classified.author, custom_author)
    /\ \A k \in OnRecord("suggestions") :
          /\ doc_metadata # Unset
          /\ calls[k].analysis = doc_analysis
          /\ calls[k].analysis.title = Overridden(Classified.title, custom_title)

\* the title block of the rendered document holds the override and the
\* scaffold in its body the classifier's title
C28_Witness ==
    /\ pc = "done" /\ outcome.status = "completed"
    /\ calls # <<>>
    /\ custom_title = VStr(S_RnD)
    /\ Classified.title = VStr(S_AnnualPlan)
    /\ \E k \in OnRecord("enhancement") :
          ~calls[k].answer.ok /\ calls[k].analysis.title = VStr(S_AnnualPlan)
    /\ \E k \in OnRecord("suggestions") : calls[k].analysis.title = VStr(S_RnD)
    /\ Contains(latex_document.placed.content, S_TitleAnnualPlan)
    /\ ~Contains(latex_document.placed.content, S_RnD)
    /\ latex_document.placed.title \in {S_RnD, S_RnDEscaped}
    /\ doc_analysis.title = VStr(S_RnD)

---------------------------------------------------------------------------
(* Properties of the compile_pdf route                                     *)

\* C21: GET /compile_pdf/<project> is answered with status 200 and a JSON
\* body that has a boolean success, whatever happened: no main.tex, a
\* compiler that failed, the time limit, an exception, a PDF. With success
\* true the body has pdf_path and pdf_size, those of a PDF that exists; with
\* success false it has an error string.
C21_CompilePdfAlwaysAnswersJson ==
    \A i \in DOMAIN builds :
        /\ (builds[i].pc = "answered") <=> (builds[i].response # Unset)
        /\ builds[i].response # Unset =>
              /\ builds[i].response.status = 200
              /\ "success" \in DOMAIN builds[i].response.body
              /\ builds[i].response.body.success \in BOOLEAN
              /\ builds[i].response.body.success =>
                    /\ {"pdf_path", "pdf_size"} \subseteq DOMAIN builds[i].response.body
                    /\ builds[i].response.body.pdf_path = builds[i].output_dir \o <<"main.pdf">>
                    /\ builds[i].response.body.pdf_size = "st_size"
                    /\ Resolve(AppDir, builds[i].output_dir) \in pdfs
              /\ ~builds[i].response.body.success =>
                    /\ "error" \in DOMAIN builds[i].response.body
                    /\ builds[i].response.body.error # ""

\* every kind of outcome has been answered: no main.tex, and the time limit
C21_Witness ==
    /\ \E i \in DOMAIN builds :
          builds[i].response = LatexNotFound /\ builds[i].passes = <<>>
    /\ \E i \in DOMAIN builds :
          /\ builds[i].pc = "answered"
          /\ builds[i].exc = "TimeoutExpired"
          /\ ~builds[i].response.body.success
          /\ builds[i].response.body.error = "PDF compilation timed out (60 seconds)"

\* the call ran alone: no other request has come in
RanAlone(i) == \A j \in DOMAIN builds : j # i => builds[j].pc = "idle"

\* C29: build_pdf_document decides success by one thing, whether main.pdf is
\* in the project directory once both passes have returned: the exit codes
\* are not looked at, the second pass runs whatever the first returned, and
\* a PDF that is there makes the call report success even when both passes
\* failed.
C29_SuccessIffPdfInProjectDir ==
    \A i \in DOMAIN builds :
        /\ (builds[i].pc \in {"check", "restore", "done", "answered"}
                /\ builds[i].exc = "none" /\ builds[i].passes # <<>>) =>
              Len(builds[i].passes) = 2
        /\ (RanAlone(i) /\ builds[i].pc \in {"done", "answered"}
                /\ builds[i].exc = "none" /\ Len(builds[i].passes) = 2) =>
              (builds[i].result.success <=> Resolve(AppDir, builds[i].output_dir) \in pdfs)

---------------------------------------------------------------------------
(* Properties of the PDF build of convert.py                               *)

MethodOrder == <<S_pdflatex_direct, S_latexmk_pdflatex, S_latexmk_default>>

\* how many commands each method has
CommandCount(name) == IF name = S_pdflatex_direct THEN 2 ELSE 1

\* the runs of the commands of the method, in the order they were made
RunsOf(name) == SelectSeq(convert.ran, LAMBDA r : r.method = name)

AllExitedZero(name) ==
    /\ Len(RunsOf(name)) = CommandCount(name)
    /\ \A k \in 1..Len(RunsOf(name)) : RunsOf(name)[k].outcome = Exited(0)

Built(name) == \E k \in 1..Len(convert.verdicts) :
    convert.verdicts[k] = [name |-> name, verdict |-> "built"]

====
